---- MODULE Spec2Model ----
(***************************************************************************)
(* Living Canvas: the drawing-to-living-object pipeline of the client      *)
(* scene (LivingCanvasStage), the property model it feeds, and the         *)
(* ice-melting rule of the interaction engine.                             *)
(*                                                                         *)
(* Ten specifications share the module's variables:                        *)
(*   Spec       one drawing, any generator setting, with scene teardown    *)
(*   SpecRapid  several drawings submitted in a row (default generator)    *)
(*   SpecProps  the property normalisation as a pure function              *)
(*   SpecSwap   one veo drawing whose entity carries effects when swapped  *)
(*   SpecIce    contact-continuing events on a melting ice wall            *)
(*   SpecWorld  collision events and commands on a world of game objects   *)
(*   SpecForce  contacts and magnetize commands, one entity maybe burning   *)
(*   SpecDraw   pointer events and submit timers of the temporary canvas    *)
(*   SpecCache  the server's image pool (cacheImage, getCachedImage)        *)
(*   SpecFrames the server's frame cache (cacheFrames, getCachedFrames)     *)
(***************************************************************************)
EXTENDS Integers, Sequences, FiniteSets, TLC

(***************************************************************************)
(* PROPERTY MODEL                                                          *)
(***************************************************************************)

\* The closed trait vocabulary (README, "Object Properties System").
Vocabulary ==
  {"walks", "drives", "flies", "hovers", "propelled",
   "falls", "floats", "heavy", "solid", "drips", "douses",
   "burns", "explodes", "blows", "lightning", "heal",
   "wooden", "metal", "ice", "magnetic",
   "user_generated_obj", "generating"}

\* WorldObject.getZeroWorldObjProp(): every trait false.
getZeroWorldObjProp == [k \in Vocabulary |-> FALSE]

\* WorldObject.getDefaultWorldObjProp(): the built-in default set
\* (a solid body that falls; not generating, not user generated).
getDefaultWorldObjProp == [k \in Vocabulary |-> k \in {"falls", "solid"}]

\* a property bag with no keys
EmptyProps == [k \in {} |-> FALSE]

\* JS object spread  { ...a, ...b }
Spread(a, b) ==
  [k \in (DOMAIN a) \cup (DOMAIN b) |-> IF k \in DOMAIN b THEN b[k] ELSE a[k]]

\* obj.key = v  on a property bag (creates the key when absent)
SetKey(p, k, v) == [x \in (DOMAIN p) \cup {k} |-> IF x = k THEN v ELSE p[x]]

\* prop.key read as a JS truthy test (undefined is falsy)
Truthy(p, k) == k \in DOMAIN p /\ p[k]

\* ---- server: parsePropertiesFromString ---------------------------------

\* the literal the server starts from
ServerBaseProperties ==
  [k \in {"floats", "hovers", "falls", "drips", "douses", "solid", "heavy",
          "burns", "explodes", "flies", "wooden", "metal", "ice", "blows"}
     |-> k \in {"falls", "solid"}]

\* one iteration of words.forEach: the switch on the word
ApplyWord(p, w) ==
  CASE w \in {"hot", "fire", "burn", "flammable"} -> [p EXCEPT !["burns"] = TRUE]
    [] w \in {"cold", "frozen", "ice"} -> [p EXCEPT !["ice"] = TRUE]
    [] w \in {"heavy", "dense"} -> [p EXCEPT !["heavy"] = TRUE]
    [] w \in {"light", "floats", "buoyant"} ->
         [p EXCEPT !["floats"] = TRUE, !["heavy"] = FALSE, !["falls"] = FALSE]
    [] w \in {"fluid", "flows", "water"} ->
         [p EXCEPT !["drips"] = TRUE, !["douses"] = TRUE]
    [] w \in {"metal", "metallic"} ->
         [p EXCEPT !["metal"] = TRUE, !["heavy"] = TRUE]
    [] w \in {"wood", "wooden"} -> [p EXCEPT !["wooden"] = TRUE]
    [] w \in {"wind", "air", "blows"} ->
         [p EXCEPT !["blows"] = TRUE, !["solid"] = FALSE]
    [] w \in {"explosion", "explosive"} -> [p EXCEPT !["explodes"] = TRUE]
    [] w \in {"flying", "flies"} ->
         [p EXCEPT !["flies"] = TRUE, !["falls"] = FALSE]
    [] OTHER -> p

RECURSIVE ApplyWords(_, _)
ApplyWords(p, words) ==
  IF words = <<>> THEN p
  ELSE ApplyWords(ApplyWord(p, Head(words)), Tail(words))

\* a parser without the type-specific overrides
TypeOverrideNone(p, objectType) == p

\* the type-specific overrides that follow the word loop
TypeOverride(p, objectType) ==
  CASE objectType \in {"fire", "candle", "flame"} ->
         [p EXCEPT !["burns"] = TRUE, !["solid"] = TRUE, !["falls"] = TRUE]
    [] objectType = "ice" -> [p EXCEPT !["ice"] = TRUE]
    [] objectType = "water" ->
         [p EXCEPT !["drips"] = TRUE, !["douses"] = TRUE, !["falls"] = TRUE]
    [] objectType = "wind" ->
         [p EXCEPT !["blows"] = TRUE, !["solid"] = FALSE, !["falls"] = FALSE]
    [] OTHER -> p

parsePropertiesFromString(objectType, words) ==
  TypeOverride(ApplyWords(ServerBaseProperties, words), objectType)

\* ---- client: the classification response and its normalisation ---------

\* A classification response as the client holds it (geminiResponse).
\* shape: "none" (null), "flat" (properties object), "list" (attributes
\* array), "bare" (neither field).  hasType: the response carries `type`.
NoResponse ==
  [shape |-> "none", hasType |-> FALSE, type |-> "", properties |-> EmptyProps,
   attributes |-> {}, shouldRemove |-> FALSE]

FlatResponse(t, props) ==
  [shape |-> "flat", hasType |-> TRUE, type |-> t, properties |-> props,
   attributes |-> {}, shouldRemove |-> FALSE]

ListResponse(t, attrs) ==
  [shape |-> "list", hasType |-> TRUE, type |-> t, properties |-> EmptyProps,
   attributes |-> attrs, shouldRemove |-> FALSE]

BareResponse(t) ==
  [shape |-> "bare", hasType |-> TRUE, type |-> t, properties |-> EmptyProps,
   attributes |-> {}, shouldRemove |-> FALSE]

\* config.getSafetySettingsResponse(): the moderation-rejection signal
SafetySettingsResponse ==
  [shape |-> "list", hasType |-> TRUE, type |-> "__BLOCKED__",
   properties |-> EmptyProps, attributes |-> {}, shouldRemove |-> TRUE]

\* an extraction whose attribute-list branch starts from the default set
extractPropertiesOntoDefaults(rawData) ==
  CASE rawData.shape = "none" -> getDefaultWorldObjProp
    [] rawData.shape = "flat" -> Spread(getZeroWorldObjProp, rawData.properties)
    [] rawData.shape = "list" ->
         [k \in DOMAIN getDefaultWorldObjProp |->
            getDefaultWorldObjProp[k] \/ k \in rawData.attributes]
    [] OTHER -> getDefaultWorldObjProp

\* LivingCanvasStage.extractPropertiesFromGeminiData
extractPropertiesFromGeminiData(rawData) ==
  CASE rawData.shape = "none" -> getDefaultWorldObjProp
    [] rawData.shape = "flat" -> Spread(getZeroWorldObjProp, rawData.properties)
    [] rawData.shape = "list" ->
         [k \in DOMAIN getZeroWorldObjProp |-> k \in rawData.attributes]
    [] OTHER -> getDefaultWorldObjProp


(***************************************************************************)
(* BACKENDS AS THE CLIENT SEES THEM                                        *)
(***************************************************************************)

\* aiConfig.inappropriateKeywords (object types are modelled as single words,
\* so "type includes keyword" is membership)
inappropriateKeywords == {"violence", "adult", "explicit"}

isInappropriateContent(type) == type \in inappropriateKeywords

\* What the vision model behind /analyze-drawing did: kind is "down" (the
\* isOllamaAvailable probe fails), "error" (the analysis throws), "neterr"
\* (the fetch itself fails) or "analysis" (objectType and property words).
OllamaOutcome(kind, t, w) == [kind |-> kind, objectType |-> t, words |-> w]

\* POST /analyze-drawing: the HTTP response
AnalyzeDrawingRoute(o) ==
  CASE o.kind = "down" ->
         [ok |-> FALSE, status |-> 503, success |-> FALSE,
          body |-> NoResponse]
    [] o.kind \in {"error", "neterr"} ->
         [ok |-> FALSE, status |-> 500, success |-> FALSE,
          body |-> NoResponse]
    [] o.kind = "analysis" /\ isInappropriateContent(o.objectType) ->
         [ok |-> TRUE, status |-> 200, success |-> FALSE,
          body |-> SafetySettingsResponse]
    [] OTHER ->
         [ok |-> TRUE, status |-> 200, success |-> TRUE,
          body |-> FlatResponse(o.objectType,
                      parsePropertiesFromString(o.objectType, o.words))]

\* LivingCanvasStage.analyzeDrawingWithOllama: null unless result.success
analyzeDrawingWithOllama(http) ==
  IF ~http.ok THEN NoResponse
  ELSE IF http.success THEN [http.body EXCEPT !.shouldRemove = FALSE]
  ELSE NoResponse

\* What the model behind /analyseImage did: "error" (imageToConfig throws),
\* "neterr", "blocked" (the model's own safety block), "analysis" (type and
\* attribute list) or "untyped" (a body without the type field).
GeminiOutcome(kind, t, attrs) == [kind |-> kind, type |-> t, attributes |-> attrs]

\* POST /analyseImage followed by sendImageDataToServerForAnalysis:
\* throws (fetch rejects), or the parsed body, or null on a non-ok status
sendImageDataToServerForAnalysis(g) ==
  CASE g.kind = "neterr" -> [throws |-> TRUE, value |-> NoResponse]
    [] g.kind = "error" -> [throws |-> FALSE, value |-> NoResponse]
    [] g.kind = "blocked" -> [throws |-> FALSE, value |-> SafetySettingsResponse]
    [] g.kind = "untyped" ->
         [throws |-> FALSE,
          value |-> [ListResponse("", g.attributes) EXCEPT !.hasType = FALSE]]
    [] g.kind = "analysis" /\ isInappropriateContent(g.type) ->
         [throws |-> FALSE, value |-> SafetySettingsResponse]
    [] OTHER -> [throws |-> FALSE, value |-> ListResponse(g.type, g.attributes)]

\* ---- generation ---------------------------------------------------------

\* texture keys are pairs: the drawing itself, no texture (undefined), the
\* static image of an asynchronous handle, its frame set, a content hash
Undefined == <<"undefined", 0>>
DrawingKey(r) == <<"drawing", r>>
StaticKey(r) == <<"static", r>>
FramesKey(r) == <<"frames", r>>

\* md5(generatedImageData): image n hashes to key n (0 is a body that is
\* no image at all)
md5(n) == <<"md5", n>>

\* What POST /generateImage answered: "httpError", "neterr", "blocked" (the
\* safety response as JSON), "errorText" (a body starting with "Error:"),
\* "empty", "b64" (base64 text of image n), "hashJson" ({hash, processedImage})
GenerateAnswer(kind, n) == [kind |-> kind, image |-> n]

\* POST /generateImage, the successful answer for the backend the client
\* names: base64 text of image n from the local models when the local
\* backend is enabled (or named), {hash, processedImage} for 'veo', base64
\* text for 'gemini' and 'imagen'; an unsupported backend is an HTTP error
generateImageRoute(backend, localEnabled, n) ==
  IF backend = "local" \/ localEnabled THEN GenerateAnswer("b64", n)
  ELSE IF backend = "veo" THEN GenerateAnswer("hashJson", 0)
  ELSE IF backend \in {"gemini", "imagen"} THEN GenerateAnswer("b64", n)
  ELSE GenerateAnswer("httpError", 0)

\* LivingCanvasStage.sendToImageGenerationBackend: what the call returns to
\* processCanvas.  kind: "throw", "undefined" (result.hash of a body with no
\* hash), "hash", "text" (the body, taken as base64; image 0 when the body
\* is JSON and not an image)
sendToImageGenerationBackend(generatorType, a) ==
  IF a.kind \in {"httpError", "neterr"} THEN [kind |-> "throw", image |-> 0]
  ELSE IF generatorType = "veo" THEN
    CASE a.kind = "hashJson" -> [kind |-> "hash", image |-> 0]
      [] a.kind = "blocked" -> [kind |-> "undefined", image |-> 0]
      [] OTHER -> [kind |-> "throw", image |-> 0]
  ELSE
    CASE a.kind = "errorText" -> [kind |-> "throw", image |-> 0]
      [] a.kind = "empty" -> [kind |-> "throw", image |-> 0]
      [] a.kind = "b64" -> [kind |-> "text", image |-> a.image]
      [] OTHER -> [kind |-> "text", image |-> 0]


(***************************************************************************)
(* STATE                                                                   *)
(***************************************************************************)

MaxRuns == 2
Runs == 1 .. MaxRuns

\* maxRetries of pollForFramesAndShowAnimation
maxRetries == 30

VARIABLES
  imageGenerator,    \* gameSettings.imageGenerator
  drawingsLeft,      \* drawings the user is still going to submit
  run,               \* per processCanvas activation: its position and locals
  phaserObj,         \* per run: the entity created by add.userobject
  loadingParticles,  \* per run: the emitter of createLoadingParticles
  veoParticles,      \* per run: the veo_sparkle emitter
  placeholder,       \* per run: the entity built by createAndPlayAnimation
  genRequests,       \* per run: POST /generateImage requests issued
  textures,          \* this.textures: keys that exist
  loadQueue,         \* this.load: files added and not yet finished
  loadListeners,     \* this.load.once(...) listeners, in registration order
  b64Pending,        \* textures.addBase64 decodes in flight: <<key, run>>
  onloadListeners,   \* this.textures.on('onload') listeners: <<key, run>>
  tornDown,          \* safeSceneTransition has run
  rawData,           \* SpecProps: the classification response under test
  extracted,         \* SpecProps: what processCanvas resolved from it
  icewall,           \* SpecIce: the ice wall entity ([exists, pos, size])
  iceEvent,          \* SpecIce: the pairs of the last collisionactive event
  world,             \* SpecWorld: the game objects, water.floating
  contact,           \* SpecWorld: which bodies touch, and the last event
  canvas,            \* SpecDraw: the temporary canvas and its submit timers
  cache              \* SpecCache, SpecFrames: the files of the server cache

pipeVars ==
  <<imageGenerator, drawingsLeft, run, phaserObj, loadingParticles,
    veoParticles, placeholder, genRequests, textures, loadQueue,
    loadListeners, b64Pending, onloadListeners, tornDown>>
propVars == <<rawData, extracted>>
iceVars == <<icewall, iceEvent>>
worldVars == <<world, contact>>
drawVars == <<canvas>>
cacheVars == <<cache>>
vars == <<pipeVars, propVars, iceVars, worldVars, drawVars, cacheVars>>

\* ---- entities -----------------------------------------------------------

\* createAndPlayAnimation: the effects with a has-flag in originalProps.effects
\* and the emitter properties of emitterProps (in the order of the array)
\* that an entity can hold when it is swapped
TransferEffects == {"fire", "steam"}
EmitterProps == <<"fireEmitter", "drips", "steam">>
EmitterSet == {EmitterProps[i] : i \in DOMAIN EmitterProps}

\* what the swap found on the original: the effects flagged in the snapshot,
\* the emitters it held, and the one whose add method or startFollow threw
\* (bad = "none": nothing threw)
NoTransfer == [had |-> {}, held |-> {}, bad |-> "none"]

\* no entity yet
NoObject ==
  [state |-> "none", prop |-> EmptyProps, texture |-> Undefined,
   alpha |-> "1", blinkTween |-> "none", anim |-> FALSE, swap |-> "none",
   effects |-> {}, emitters |-> {}, transfer |-> NoTransfer,
   teardown |-> << >>]

\* processCanvas: initialProperties (default, solid=false, generating=true)
initialProperties ==
  [getDefaultWorldObjProp EXCEPT !["solid"] = FALSE, !["generating"] = TRUE]

\* this.add.userobject(x, y, base64ImageData, initialProperties)
userobject(r) ==
  [NoObject EXCEPT !.state = "scene", !.prop = initialProperties,
                   !.texture = DrawingKey(r)]

\* WorldObject.updateObject(texture, prop): the property bag is replaced,
\* the texture too unless it is undefined
updateObject(obj, texture, prop) ==
  [obj EXCEPT !.prop = prop,
              !.texture = IF texture = Undefined THEN @ ELSE texture]

\* gameObject.destroy(): a no-op on an object already destroyed
destroy(obj) == [obj EXCEPT !.state = IF @ = "none" THEN @ ELSE "destroyed"]

\* if (obj.blinkTween) { obj.blinkTween.stop(); obj.setAlpha(1); }
stopBlink(obj) ==
  IF obj.blinkTween = "none" THEN obj
  ELSE [obj EXCEPT !.blinkTween = "stopped", !.alpha = "1"]

\* particles.stop(); particles.destroy(); a second disposal of the same
\* emitter is told apart from the first
stopAndDestroy(p) ==
  IF p \in {"destroyed", "destroyedTwice"} THEN "destroyedTwice" ELSE "destroyed"

\* processCanvas position and locals of one activation
RunInit ==
  [pc |-> "idle", generatorType |-> "", geminiResponse |-> NoResponse,
   additionalProperties |-> EmptyProps, finalProperties |-> EmptyProps,
   generatedImageData |-> Undefined, retryCount |-> 0,
   statusChecks |-> 0, frameLoads |-> 0, fallbacks |-> 0,
   errorReported |-> FALSE,
   framesResult |-> "none", everReady |-> FALSE, pollEnd |-> "none",
   primary |-> "none", secondary |-> "none", generation |-> "none",
   registered |-> FALSE, outcome |-> "none"]

\* a continuation that a resolved promise has queued runs before any other
\* event is delivered
NoMicrotask ==
  \A r \in Runs : ~(run[r].pc = "loadFrames" /\ run[r].framesResult # "pending")


(***************************************************************************)
(* THE LOADER (this.load) AND ITS ONCE-LISTENERS                           *)
(***************************************************************************)

Listener(ev, cb, r) == [event |-> ev, cb |-> cb, run |-> r]

\* this.load.image(key, url): a key that is already a texture, or already
\* queued, is not added again
LoadImage(queue, texs, key) == IF key \in texs THEN queue ELSE queue \cup {key}

\* what one listener does to the scene; w is [obj |-> phaserObj, run |-> run]
RunListener(w, l) ==
  CASE l.cb = "veoStatic" ->
         \* processCanvas: phaserObj.updateObject(hash, additionalProperties)
         [w EXCEPT !.obj[l.run] =
            updateObject(@, StaticKey(l.run), w.run[l.run].additionalProperties)]
    [] l.cb = "failStatic" ->
         \* handleVeoFailure: if (phaserObj && !phaserObj.destroyed) ...
         IF w.obj[l.run].state = "destroyed" THEN w
         ELSE [w EXCEPT !.obj[l.run] =
                 updateObject(@, StaticKey(l.run), w.obj[l.run].prop)]
    [] l.cb \in {"framesOk", "framesErr"} ->
         \* tryLoadFrames: resolve(true) / resolve(false); a promise settles once
         IF w.run[l.run].pc = "loadFrames"
            /\ w.run[l.run].framesResult = "pending"
         THEN [w EXCEPT !.run[l.run].framesResult =
                 IF l.cb = "framesOk" THEN "true" ELSE "false"]
         ELSE w
    [] OTHER -> w

\* emit(ev): the listeners for ev run in registration order
RECURSIVE Emit(_, _, _)
Emit(w, ls, ev) ==
  IF ls = <<>> THEN w
  ELSE Emit(IF Head(ls).event = ev THEN RunListener(w, Head(ls)) ELSE w,
            Tail(ls), ev)

\* once-listeners are removed when their event is emitted; a tryLoadFrames
\* listener whose promise has settled can do nothing any more and is left out
Remaining(ls, ev, runs) ==
  SelectSeq(ls, LAMBDA l :
    /\ l.event # ev
    /\ l.cb \in {"framesOk", "framesErr"} =>
         (runs[l.run].pc = "loadFrames" /\ runs[l.run].framesResult = "pending"))

\* handleVeoFailure, on the entity: stop blinking, and show the static image
\* at once when it is loaded
handleVeoFailureObj(obj, texs, r) ==
  IF StaticKey(r) \in texs
  THEN updateObject(stopBlink(obj), StaticKey(r), obj.prop)
  ELSE stopBlink(obj)

\* handleVeoFailure, on the textures: partially loaded frames are removed
handleVeoFailureTextures(texs, r) == texs \ {FramesKey(r)}

\* handleVeoFailure, on the loader: the static image is loaded on demand
handleVeoFailureQueue(queue, texs, r) ==
  IF StaticKey(r) \in texs THEN queue ELSE LoadImage(queue, texs, StaticKey(r))

handleVeoFailureListeners(ls, texs, r) ==
  IF StaticKey(r) \in texs THEN ls
  ELSE Append(ls, Listener("complete", "failStatic", r))

\* processCanvas (veo branch): the listener that shows the static image drops
\* out
veoStaticListenerMissing(r) == << >>

\* processCanvas (veo branch): this.load.once('complete', ...) that applies
\* updateObject(hash, additionalProperties)
veoStaticListener(r) == << Listener("complete", "veoStatic", r) >>


(***************************************************************************)
(* processCanvas                                                           *)
(***************************************************************************)

otherSpecsIdle == UNCHANGED <<propVars, iceVars, worldVars, drawVars, cacheVars>>

\* the catch block that forgets the entity
catchCleanupKeepsObject(obj) == stopBlink(obj)

\* processCanvas, catch: what it does to phaserObj (the emitters fire, flare,
\* ... are absent on a placeholder): stop the blink tween, destroy the object
catchCleanup(obj) == destroy(stopBlink(obj))

\* processCanvas, catch (error) { ... }
CatchBlock(r, rr) ==
  /\ run' = [run EXCEPT ![r] = [rr EXCEPT !.pc = "done", !.outcome = "failed"]]
  /\ loadingParticles' =
       [loadingParticles EXCEPT ![r] = stopAndDestroy(loadingParticles[r])]
  /\ phaserObj' = [phaserObj EXCEPT ![r] = catchCleanup(@)]
  /\ UNCHANGED <<veoParticles, genRequests, textures, loadQueue,
                 loadListeners, b64Pending, onloadListeners>>

\* processCanvas, catch (error) { ... } entered from a statement that throws
\* after loadingParticles.stop(); loadingParticles.destroy() of the try block
\* have run: the catch block disposes of the emitter again
LateCatchBlock(r, rr) ==
  /\ run' = [run EXCEPT ![r] = [rr EXCEPT !.pc = "done", !.outcome = "failed"]]
  /\ loadingParticles' =
       [loadingParticles EXCEPT ![r] =
          stopAndDestroy(stopAndDestroy(loadingParticles[r]))]
  /\ phaserObj' = [phaserObj EXCEPT ![r] = catchCleanup(@)]
  /\ UNCHANGED <<veoParticles, genRequests, textures, loadQueue,
                 loadListeners, b64Pending, onloadListeners>>

\* processCanvas, if (geminiResponse.shouldRemove) { ... return; }
RemoveDrawing(r, rr) ==
  /\ run' = [run EXCEPT ![r] = [rr EXCEPT !.pc = "done", !.outcome = "removed"]]
  /\ loadingParticles' =
       [loadingParticles EXCEPT ![r] = stopAndDestroy(loadingParticles[r])]
  /\ phaserObj' = [phaserObj EXCEPT ![r] = destroy(@)]
  /\ UNCHANGED <<veoParticles, genRequests, textures, loadQueue,
                 loadListeners, b64Pending, onloadListeners>>

\* processCanvas: finalProperties = { ...default, ...additional };
\* finalProperties.user_generated_obj = true
mergeFinalProperties(additional) ==
  SetKey(Spread(getDefaultWorldObjProp, additional), "user_generated_obj", TRUE)

\* processCanvas from the classification result up to the generation request
AfterClassification(r, resp, rr) ==
  IF resp.shape = "none" THEN CatchBlock(r, rr)
  ELSE IF resp.shouldRemove THEN RemoveDrawing(r, rr)
  ELSE IF ~resp.hasType THEN CatchBlock(r, rr)
  ELSE
    LET additional == extractPropertiesFromGeminiData(resp) IN
    /\ run' = [run EXCEPT ![r] =
         [rr EXCEPT !.pc = "generate", !.geminiResponse = resp,
                    !.additionalProperties = additional,
                    !.finalProperties = mergeFinalProperties(additional)]]
    /\ genRequests' = [genRequests EXCEPT ![r] = @ + 1]
    /\ UNCHANGED <<phaserObj, loadingParticles, veoParticles, textures,
                   loadQueue, loadListeners, b64Pending, onloadListeners>>

\* the sendDelay timer of canvasUpEvent fires: processCanvas runs up to its
\* first request (placeholder entity, loading particles, POST /analyze-drawing)
StartRun(r) ==
  /\ drawingsLeft > 0 /\ ~tornDown /\ NoMicrotask
  /\ run[r].pc = "idle"
  /\ \A q \in Runs : q < r => run[q].pc # "idle"
  /\ drawingsLeft' = drawingsLeft - 1
  /\ run' = [run EXCEPT ![r] =
       [@ EXCEPT !.pc = "classify1", !.generatorType = imageGenerator]]
  /\ phaserObj' = [phaserObj EXCEPT ![r] = userobject(r)]
  /\ loadingParticles' = [loadingParticles EXCEPT ![r] = "active"]
  /\ UNCHANGED <<imageGenerator, veoParticles, placeholder, genRequests,
                 textures, loadQueue, loadListeners, b64Pending,
                 onloadListeners, tornDown>>
  /\ otherSpecsIdle

primaryKind(http) ==
  IF ~http.ok THEN "unavailable"
  ELSE IF http.success THEN "ok"
  ELSE IF http.body.shouldRemove THEN "rejected" ELSE "unavailable"

\* await this.analyzeDrawingWithOllama(base64ImageData) returns
PrimaryResponds(r, o) ==
  /\ run[r].pc = "classify1" /\ NoMicrotask
  /\ LET http == AnalyzeDrawingRoute(o)
         resp == analyzeDrawingWithOllama(http)
         rr == [run[r] EXCEPT !.primary = primaryKind(http)]
     IN IF resp.shape = "none"
        THEN /\ run' = [run EXCEPT ![r] = [rr EXCEPT !.pc = "classify2"]]
             /\ UNCHANGED <<phaserObj, loadingParticles, veoParticles,
                            genRequests, textures, loadQueue, loadListeners,
                            b64Pending, onloadListeners>>
        ELSE AfterClassification(r, resp, rr)
  /\ UNCHANGED <<imageGenerator, drawingsLeft, placeholder, tornDown>>
  /\ otherSpecsIdle

secondaryKind(res) ==
  IF res.throws THEN "threw"
  ELSE IF res.value.shape = "none" THEN "unavailable"
  ELSE IF res.value.shouldRemove THEN "rejected" ELSE "ok"

\* await this.sendImageDataToServerForAnalysis(base64ImageData) returns
SecondaryResponds(r, g) ==
  /\ run[r].pc = "classify2" /\ NoMicrotask
  /\ LET res == sendImageDataToServerForAnalysis(g)
         rr == [run[r] EXCEPT !.secondary = secondaryKind(res)]
     IN IF res.throws THEN CatchBlock(r, rr)
        ELSE AfterClassification(r, res.value, rr)
  /\ UNCHANGED <<imageGenerator, drawingsLeft, placeholder, tornDown>>
  /\ otherSpecsIdle


\* a static branch that registers the asset and never listens for 'onload'
StaticBranchNoListener(r, rr, key) ==
  /\ run' = [run EXCEPT ![r] =
       [rr EXCEPT !.pc = "done", !.outcome = "static",
                  !.generatedImageData = key]]
  /\ loadingParticles' =
       [loadingParticles EXCEPT ![r] = stopAndDestroy(loadingParticles[r])]
  /\ IF key \in textures
     THEN /\ phaserObj' = [phaserObj EXCEPT ![r] =
                updateObject(@, key, rr.finalProperties)]
          /\ UNCHANGED <<onloadListeners, b64Pending>>
     ELSE /\ phaserObj' = [phaserObj EXCEPT ![r] =
                updateObject(@, Undefined, rr.finalProperties)]
          /\ b64Pending' = b64Pending \cup {<<key, r>>}
          /\ UNCHANGED onloadListeners
  /\ UNCHANGED <<veoParticles, genRequests, textures, loadQueue, loadListeners>>

\* processCanvas, static branch (gemini / imagen): imageKey = md5(data)
StaticBranch(r, rr, key) ==
  /\ run' = [run EXCEPT ![r] =
       [rr EXCEPT !.pc = "done", !.outcome = "static",
                  !.generatedImageData = key]]
  /\ loadingParticles' =
       [loadingParticles EXCEPT ![r] = stopAndDestroy(loadingParticles[r])]
  /\ IF key \in textures
     THEN /\ phaserObj' = [phaserObj EXCEPT ![r] =
                updateObject(@, key, rr.finalProperties)]
          /\ UNCHANGED <<onloadListeners, b64Pending>>
     ELSE /\ phaserObj' = [phaserObj EXCEPT ![r] =
                updateObject(@, Undefined, rr.finalProperties)]
          /\ onloadListeners' = onloadListeners \cup {<<key, r>>}
          /\ b64Pending' = b64Pending \cup {<<key, r>>}
  /\ UNCHANGED <<veoParticles, genRequests, textures, loadQueue, loadListeners>>

\* processCanvas, veo branch up to the first status request of
\* pollForFramesAndShowAnimation
VeoBranch(r, rr) ==
  /\ run' = [run EXCEPT ![r] =
       [rr EXCEPT !.pc = "pollStatus", !.retryCount = 0,
                  !.generatedImageData = StaticKey(r)]]
  /\ loadingParticles' =
       [loadingParticles EXCEPT ![r] = stopAndDestroy(loadingParticles[r])]
  /\ loadQueue' = LoadImage(loadQueue, textures, StaticKey(r))
  /\ loadListeners' = loadListeners \o veoStaticListener(r)
  /\ phaserObj' = [phaserObj EXCEPT ![r] =
       [@ EXCEPT !.blinkTween = "active", !.alpha = "blink"]]
  /\ veoParticles' = [veoParticles EXCEPT ![r] = "active"]
  /\ UNCHANGED <<genRequests, textures, b64Pending, onloadListeners>>

\* await this.sendToImageGenerationBackend(...) returns or throws.
\* onDestroyed: what updateObject does on an object that scene teardown has
\* destroyed ("throws" or "quiet").
GenerateResponds(r, a, onDestroyed) ==
  /\ run[r].pc = "generate" /\ NoMicrotask
  /\ LET res == sendToImageGenerationBackend(run[r].generatorType, a)
         rr == [run[r] EXCEPT !.generation = a.kind]
     IN CASE res.kind = "throw" -> CatchBlock(r, rr)
          \* generatedImageData.shouldRemove on undefined: a TypeError
          [] res.kind = "undefined" -> CatchBlock(r, rr)
          [] res.kind = "hash" -> VeoBranch(r, rr)
          [] OTHER ->
               IF phaserObj[r].state = "destroyed" /\ onDestroyed = "throws"
               THEN LateCatchBlock(r, rr)
               ELSE StaticBranch(r, rr, md5(res.image))
  /\ UNCHANGED <<imageGenerator, drawingsLeft, placeholder, tornDown>>
  /\ otherSpecsIdle

(***************************************************************************)
(* pollForFramesAndShowAnimation                                           *)
(***************************************************************************)

\* a failure handler after which the loop goes on: handleVeoFailure() without
\* the return that follows it
PollFailKeepsPolling(r, rr, how) ==
  /\ run' = [run EXCEPT ![r] =
       [rr EXCEPT !.pc = IF how = "exhausted" THEN "done" ELSE "pollWait",
                  !.pollEnd = how, !.framesResult = "none",
                  !.fallbacks = IF @ = 0 THEN 1 ELSE @]]
  /\ phaserObj' = [phaserObj EXCEPT ![r] =
       stopBlink(handleVeoFailureObj(@, textures, r))]
  /\ textures' = handleVeoFailureTextures(textures, r)
  /\ loadQueue' = handleVeoFailureQueue(loadQueue, textures, r)
  /\ loadListeners' =
       IF rr.fallbacks = 0 THEN handleVeoFailureListeners(loadListeners, textures, r)
       ELSE loadListeners
  /\ UNCHANGED <<veoParticles, loadingParticles, genRequests, b64Pending,
                 onloadListeners>>

\* handleVeoFailure() followed by the rest of processCanvas after the await:
\* veoParticles stopped and destroyed, blink tween stopped, alpha 1
PollFail(r, rr, how) ==
  /\ run' = [run EXCEPT ![r] =
       [rr EXCEPT !.pc = "done", !.pollEnd = how, !.outcome = "veoFallback",
                  !.framesResult = "none", !.fallbacks = @ + 1]]
  /\ phaserObj' = [phaserObj EXCEPT ![r] =
       stopBlink(handleVeoFailureObj(@, textures, r))]
  /\ textures' = handleVeoFailureTextures(textures, r)
  /\ loadQueue' = handleVeoFailureQueue(loadQueue, textures, r)
  /\ loadListeners' = handleVeoFailureListeners(loadListeners, textures, r)
  /\ veoParticles' = [veoParticles EXCEPT ![r] = stopAndDestroy(veoParticles[r])]
  /\ UNCHANGED <<loadingParticles, genRequests, b64Pending, onloadListeners>>

\* a loop that runs while retryCount <= maxRetries
NextRoundOneMore(r, rr) ==
  LET n == rr.retryCount + 1 IN
  IF n <= maxRetries
  THEN /\ run' = [run EXCEPT ![r] =
            [rr EXCEPT !.pc = "pollWait", !.retryCount = n,
                       !.framesResult = "none"]]
       /\ UNCHANGED <<phaserObj, loadingParticles, veoParticles, genRequests,
                      textures, loadQueue, loadListeners, b64Pending,
                      onloadListeners>>
  ELSE PollFail(r, [rr EXCEPT !.retryCount = n], "exhausted")

\* a loop that never counts its rounds
NextRoundForever(r, rr) ==
  /\ run' = [run EXCEPT ![r] =
       [rr EXCEPT !.pc = "pollWait", !.framesResult = "none",
                  !.statusChecks = 0, !.frameLoads = 0]]
  /\ UNCHANGED <<phaserObj, loadingParticles, veoParticles, genRequests,
                 textures, loadQueue, loadListeners, b64Pending,
                 onloadListeners>>

\* retryCount++; then wait retryDelay, or leave the loop
NextRound(r, rr) ==
  LET n == rr.retryCount + 1 IN
  IF n < maxRetries
  THEN /\ run' = [run EXCEPT ![r] =
            [rr EXCEPT !.pc = "pollWait", !.retryCount = n,
                       !.framesResult = "none"]]
       /\ UNCHANGED <<phaserObj, loadingParticles, veoParticles, genRequests,
                      textures, loadQueue, loadListeners, b64Pending,
                      onloadListeners>>
  ELSE PollFail(r, [rr EXCEPT !.retryCount = n], "exhausted")

\* tryLoadFrames(): queue the frames, register both listeners, load.start()
TryLoadFrames(r, rr) ==
  LET queue1 == LoadImage(loadQueue, textures, FramesKey(r))
      ls1 == loadListeners \o
               << Listener("complete", "framesOk", r),
                  Listener("loaderror", "framesErr", r) >>
      run1 == [run EXCEPT ![r] =
                 [rr EXCEPT !.pc = "loadFrames", !.framesResult = "pending",
                            !.frameLoads = @ + 1]]
      w0 == [obj |-> phaserObj, run |-> run1]
      \* load.start() with nothing to load completes at once
      w1 == IF queue1 = {} THEN Emit(w0, ls1, "complete") ELSE w0
  IN /\ loadQueue' = queue1
     /\ loadListeners' =
          IF queue1 = {} THEN Remaining(ls1, "complete", w1.run) ELSE ls1
     /\ run' = w1.run
     /\ phaserObj' = w1.obj
     /\ UNCHANGED <<loadingParticles, veoParticles, genRequests, textures,
                    b64Pending, onloadListeners>>

\* await checkFrameStatus() returns or throws: "errorFile" (/checkError
\* answers OK: the error file exists), "failed" (another request failure),
\* "notReady" or "ready"
PollStatus(r, status) ==
  /\ run[r].pc = "pollStatus" /\ NoMicrotask
  /\ LET rr == [run[r] EXCEPT !.statusChecks = @ + 1] IN
     CASE status = "errorFile" ->
            PollFail(r, [rr EXCEPT !.errorReported = TRUE], "failed")
       [] status = "failed" -> PollFail(r, rr, "failed")
       [] status = "notReady" -> NextRound(r, rr)
       [] OTHER -> TryLoadFrames(r, [rr EXCEPT !.everReady = TRUE])
  /\ UNCHANGED <<imageGenerator, drawingsLeft, placeholder, tornDown>>
  /\ otherSpecsIdle

\* the retryDelay timer fires
PollWaitDone(r) ==
  /\ run[r].pc = "pollWait" /\ NoMicrotask
  /\ run' = [run EXCEPT ![r].pc = "pollStatus"]
  /\ UNCHANGED <<imageGenerator, drawingsLeft, phaserObj, loadingParticles,
                 veoParticles, placeholder, genRequests, textures, loadQueue,
                 loadListeners, b64Pending, onloadListeners, tornDown>>
  /\ otherSpecsIdle

\* a replacement entity for which no transfer and no destruction of the
\* original is scheduled
createAndPlayAnimationNoSwap(obj, r) ==
  [NoObject EXCEPT !.state = "scene", !.prop = obj.prop,
                   !.texture = FramesKey(r), !.anim = TRUE,
                   !.swap = "done"]

\* createAndPlayAnimation: the replacement entity, built from a copy of the
\* original's properties, playing the frame animation
createAndPlayAnimation(obj, r) ==
  [NoObject EXCEPT !.state = "scene", !.prop = obj.prop,
                   !.texture = FramesKey(r), !.anim = TRUE,
                   !.swap = "transferDue"]

\* a loop in which frames that fail to load end the polling at once
FramesResolvedAborting(r) ==
  /\ run[r].pc = "loadFrames" /\ run[r].framesResult \in {"true", "false"}
  /\ IF run[r].framesResult = "true"
     THEN /\ placeholder' = [placeholder EXCEPT ![r] =
                createAndPlayAnimation(phaserObj[r], r)]
          /\ run' = [run EXCEPT ![r] =
                [@ EXCEPT !.pc = "done", !.pollEnd = "success",
                          !.outcome = "veoSuccess", !.framesResult = "none"]]
          /\ veoParticles' =
                [veoParticles EXCEPT ![r] = stopAndDestroy(veoParticles[r])]
          /\ phaserObj' = [phaserObj EXCEPT ![r] = stopBlink(@)]
          /\ UNCHANGED <<loadingParticles, genRequests, textures, loadQueue,
                         loadListeners, b64Pending, onloadListeners>>
     ELSE /\ PollFail(r, run[r], "failed")
          /\ UNCHANGED placeholder
  /\ UNCHANGED <<imageGenerator, drawingsLeft, tornDown>>
  /\ otherSpecsIdle

\* await tryLoadFrames() resumes with the promise's value
FramesResolved(r) ==
  /\ run[r].pc = "loadFrames" /\ run[r].framesResult \in {"true", "false"}
  /\ IF run[r].framesResult = "true"
     THEN /\ placeholder' = [placeholder EXCEPT ![r] =
                createAndPlayAnimation(phaserObj[r], r)]
          /\ run' = [run EXCEPT ![r] =
                [@ EXCEPT !.pc = "done", !.pollEnd = "success",
                          !.outcome = "veoSuccess", !.framesResult = "none"]]
          /\ veoParticles' =
                [veoParticles EXCEPT ![r] = stopAndDestroy(veoParticles[r])]
          /\ phaserObj' = [phaserObj EXCEPT ![r] = stopBlink(@)]
          /\ UNCHANGED <<loadingParticles, genRequests, textures, loadQueue,
                         loadListeners, b64Pending, onloadListeners>>
     ELSE /\ NextRound(r, run[r])
          /\ UNCHANGED placeholder
  /\ UNCHANGED <<imageGenerator, drawingsLeft, tornDown>>
  /\ otherSpecsIdle


(***************************************************************************)
(* LOADER AND TEXTURE EVENTS, TIMERS, SCENE TEARDOWN                       *)
(***************************************************************************)

\* one file of this.load finishes (ok) or fails; 'loaderror' is emitted for a
\* failed file, 'complete' when the queue has drained
LoadFileDone(key, ok) ==
  /\ key \in loadQueue /\ NoMicrotask
  /\ LET q1 == loadQueue \ {key}
         w0 == [obj |-> phaserObj, run |-> run]
         w1 == IF ok THEN w0 ELSE Emit(w0, loadListeners, "loaderror")
         ls1 == IF ok THEN loadListeners
                ELSE Remaining(loadListeners, "loaderror", w1.run)
         w2 == IF q1 = {} THEN Emit(w1, ls1, "complete") ELSE w1
         ls2 == IF q1 = {} THEN Remaining(ls1, "complete", w2.run) ELSE ls1
     IN /\ loadQueue' = q1
        /\ textures' = IF ok THEN textures \cup {key} ELSE textures
        /\ loadListeners' = ls2
        /\ phaserObj' = w2.obj
        /\ run' = w2.run
  /\ UNCHANGED <<imageGenerator, drawingsLeft, loadingParticles, veoParticles,
                 placeholder, genRequests, b64Pending, onloadListeners,
                 tornDown>>
  /\ otherSpecsIdle

\* textures.addBase64: the image decodes ('onload' is emitted, and every
\* listener registered for that key applies updateObject(textureId,
\* finalProperties)), or it does not decode (image 0: no event).  A key that
\* is in the texture manager by then is not registered again; the run whose
\* image created the texture is marked registered.
TextureDecoded(job) ==
  /\ job \in b64Pending /\ NoMicrotask
  /\ b64Pending' = b64Pending \ {job}
  /\ IF job[1] = md5(0) \/ job[1] \in textures
     THEN UNCHANGED <<textures, phaserObj, run>>
     ELSE /\ textures' = textures \cup {job[1]}
          /\ run' = [run EXCEPT ![job[2]].registered = TRUE]
          /\ phaserObj' =
               [q \in Runs |->
                  IF <<job[1], q>> \in onloadListeners
                  THEN updateObject(phaserObj[q], job[1], run[q].finalProperties)
                  ELSE phaserObj[q]]
  /\ UNCHANGED <<imageGenerator, drawingsLeft, loadingParticles,
                 veoParticles, placeholder, genRequests, loadQueue,
                 loadListeners, onloadListeners, tornDown>>
  /\ otherSpecsIdle

\* effectNames.forEach with try/catch per effect: every flagged effect whose
\* add method does not throw is added to the replacement
transferEffects(had, bad) == had \ {bad}

\* emitterProps.forEach, no try/catch: the emitters are moved over in the
\* order of the array until a startFollow throws
transferEmitters(held, bad) ==
  LET badAt == IF bad \in held
               THEN CHOOSE i \in DOMAIN EmitterProps : EmitterProps[i] = bad
               ELSE Len(EmitterProps) + 1
  IN [moved |-> {EmitterProps[i] : i \in {j \in DOMAIN EmitterProps : j < badAt}}
                  \cap held,
      threw |-> bad \in held]

\* createAndPlayAnimation, time.delayedCall(0): physics and effects go over
\* to the replacement, and the destruction of the original is scheduled at
\* the end of the callback.  had, held, bad: what the original carries and
\* which transfer throws.
AnimTransfer(r, had, held, bad) ==
  /\ placeholder[r].swap = "transferDue" /\ NoMicrotask
  /\ bad \in {"none"} \cup had \cup held
  /\ IF placeholder[r].state = "scene"
     THEN LET em == transferEmitters(held, bad) IN
          /\ placeholder' = [placeholder EXCEPT ![r] =
               [@ EXCEPT !.effects = transferEffects(had, bad),
                         !.emitters = em.moved,
                         !.transfer = [had |-> had, held |-> held, bad |-> bad],
                         !.swap = IF em.threw THEN "aborted" ELSE "destroyDue"]]
          /\ phaserObj' = [phaserObj EXCEPT ![r] =
               [@ EXCEPT !.effects = had, !.emitters = held \ em.moved]]
     ELSE \* if (placeholder && placeholder.body) is false: nothing goes over
          /\ placeholder' = [placeholder EXCEPT ![r].swap = "destroyDue"]
          /\ UNCHANGED phaserObj
  /\ UNCHANGED <<imageGenerator, drawingsLeft, run,
                 loadingParticles, veoParticles, genRequests, textures,
                 loadQueue, loadListeners, b64Pending, onloadListeners,
                 tornDown>>
  /\ otherSpecsIdle

\* createAndPlayAnimation, time.delayedCall(50): the original is destroyed,
\* its remaining effects (blinkTween among them) stopped first
DestroyOriginal(r) ==
  /\ placeholder[r].swap = "destroyDue" /\ NoMicrotask
  /\ placeholder' = [placeholder EXCEPT ![r].swap = "done"]
  /\ phaserObj' = [phaserObj EXCEPT ![r] =
       IF @.state = "destroyed" THEN @
       ELSE destroy([stopBlink(@) EXCEPT !.effects = {}])]
  /\ UNCHANGED <<imageGenerator, drawingsLeft, run, loadingParticles,
                 veoParticles, genRequests, textures, loadQueue,
                 loadListeners, b64Pending, onloadListeners, tornDown>>
  /\ otherSpecsIdle

\* safeSceneTransition: the passes over allObjects, in the order of the code
\* (stop the effects, displayList.remove, updateList.remove,
\* children.remove, destroy(true))
sceneTransitionPasses ==
  << "stop", "displayList", "updateList", "children", "destroy" >>

\* a guard that lets every pass act on a destroyed object too
passAppliesAlways(obj) == obj.state # "none"

\* safeSceneTransition: if (obj && !obj.destroyed), the guard of every pass
passApplies(obj) == obj.state = "scene"

\* safeSceneTransition, one pass on one object; obj.teardown records the
\* passes that acted on it
applyPass(obj, pass) ==
  IF ~passApplies(obj) THEN obj
  ELSE LET o1 == [obj EXCEPT !.teardown = Append(@, pass)] IN
       CASE pass = "stop" -> [o1 EXCEPT !.effects = {}]
         [] pass = "destroy" -> destroy(o1)
         [] OTHER -> o1

\* safeSceneTransition, per WorldObject of getWorldObjectList(): the passes
\* one after the other
sceneTransitionObject(obj) ==
  LET RECURSIVE through(_, _)
      through(o, i) ==
        IF i > Len(sceneTransitionPasses) THEN o
        ELSE through(applyPass(o, sceneTransitionPasses[i]), i + 1)
  IN through(obj, 1)

\* safeSceneTransition(sceneKey)
SafeSceneTransition ==
  /\ NoMicrotask
  /\ phaserObj' = [r \in Runs |-> sceneTransitionObject(phaserObj[r])]
  /\ placeholder' = [r \in Runs |-> sceneTransitionObject(placeholder[r])]
  /\ tornDown' = TRUE
  /\ UNCHANGED <<imageGenerator, drawingsLeft, run, loadingParticles,
                 veoParticles, genRequests, textures, loadQueue,
                 loadListeners, b64Pending, onloadListeners>>
  /\ otherSpecsIdle


(***************************************************************************)
(* ICE MELTING                                                             *)
(***************************************************************************)

\* the bodies that can be in contact with the ice wall
IceBodies == {"ice", "fire", "bolt", "rock"}

\* the property bag of each body's game object
bodyProp(b) ==
  CASE b = "fire" -> [getZeroWorldObjProp EXCEPT !["burns"] = TRUE]
    [] b = "bolt" -> [getZeroWorldObjProp EXCEPT !["lightning"] = TRUE]
    [] b = "ice" -> [getZeroWorldObjProp EXCEPT !["ice"] = TRUE, !["solid"] = TRUE]
    [] OTHER -> [getZeroWorldObjProp EXCEPT !["solid"] = TRUE, !["heavy"] = TRUE]

\* WorldObject.canSetFire(obj): burning, or a lightning source
canSetFire(b) == Truthy(bodyProp(b), "burns") \/ Truthy(bodyProp(b), "lightning")

\* updateIceMelting that moves the wall and leaves its height alone
updateIceMeltingNoShrink(w) == [w EXCEPT !.pos.y2 = @ + 1]

\* updateIceMelting(icewall, pos, size): pos.y += 0.5 (y2 counts half units),
\* setDisplaySize(size.x, --size.y)
updateIceMelting(w) == [w EXCEPT !.pos.y2 = @ + 1, !.size.y = @ - 1]

\* checkIceMelting that looks at the wall on the bodyA side only
checkIcePairOneSided(w, pair) ==
  IF pair[1] = "ice" /\ canSetFire(pair[2]) THEN updateIceMelting(w) ELSE w

\* checkIceMelting, the body of the loop over event.pairs
checkIcePair(w, pair) ==
  LET w1 == IF pair[1] = "ice" /\ canSetFire(pair[2])
            THEN updateIceMelting(w) ELSE w
  IN IF pair[2] = "ice" /\ canSetFire(pair[1]) THEN updateIceMelting(w1) ELSE w1

RECURSIVE checkIceMelting(_, _)
checkIceMelting(pairs, w) ==
  IF pairs = <<>> THEN w
  ELSE checkIceMelting(Tail(pairs), checkIcePair(w, Head(pairs)))

\* the height at which the level takes the melted wall away
MinIceHeight == 0

\* the level's collisionactive handler around checkIceMelting: the wall is
\* removed once its height has reached the minimum
removeMeltedIce(w) ==
  IF w.size.y <= MinIceHeight THEN [w EXCEPT !.exists = FALSE] ELSE w

IceHeight0 == 4
MaxPairs == 2

\* the pairs one event can report: two different bodies each, no pair twice;
\* event.pairs lists them in the engine's order of pairs
IcePairs == {p \in IceBodies \X IceBodies : p[1] # p[2]}
bodyId(b) == CASE b = "ice" -> 0 [] b = "fire" -> 1 [] b = "bolt" -> 2 [] OTHER -> 3
pairId(p) == Cardinality(IceBodies) * bodyId(p[1]) + bodyId(p[2])
IceEvents ==
  {e \in UNION {[1 .. n -> IcePairs] : n \in 1 .. MaxPairs} :
     \A i, j \in 1 .. Len(e) :
       i < j => (pairId(e[i]) < pairId(e[j]) /\ e[i] # <<e[j][2], e[j][1]>>)}

HasMeltingPair(ev) ==
  \E i \in 1 .. Len(ev) :
    \/ ev[i][1] = "ice" /\ canSetFire(ev[i][2])
    \/ ev[i][2] = "ice" /\ canSetFire(ev[i][1])

NoIce == [exists |-> FALSE, pos |-> [x |-> 0, y2 |-> 0], size |-> [x |-> 0, y |-> 0]]

\* one collisionactive event delivered to the level's handler
CollisionActive(ev) ==
  /\ icewall.exists
  /\ icewall' = removeMeltedIce(checkIceMelting(ev, icewall))
  /\ iceEvent' = ev
  /\ UNCHANGED <<pipeVars, propVars, worldVars, drawVars, cacheVars>>

(***************************************************************************)
(* INTERACTION ENGINE: COLLISION HANDLERS AND COMMANDS                     *)
(***************************************************************************)

\* the bodies of the world under test, and water.sensor
Bodies == {"b1", "b2"}
Sensor == "sensor"

WorldKeys ==
  {"lightning", "rusted", "wooden", "ice", "burns", "heavy", "floats",
   "metal", "explodes", "magnetic"}

\* a game object: its class, name, property bag, texture, burn effect, wet
\* effect, life and the number of force fields created for it
GameObject(cls, name, keys, texture) ==
  [cls |-> cls, name |-> name, prop |-> [k \in WorldKeys |-> k \in keys],
   texture |-> texture, fire |-> FALSE, wet |-> FALSE, life |-> "full",
   fields |-> 0]

\* the game objects a level or a drawing can put into the world
EntityKinds ==
  {GameObject("WorldObject", "bolt", {"lightning"}, "bolt"),
   GameObject("RustedKey", "key", {"rusted", "metal"}, "rusted_key"),
   GameObject("WorldObject", "can", {"rusted", "metal"}, "can"),
   GameObject("WorldObject", "anvil", {"heavy", "metal"}, "anvil"),
   GameObject("WorldObject", "log", {"wooden", "floats"}, "log")}

\* body.gameObject is defined: always for a body of the world, for the
\* sensor if the water volume gave it one
hasGameObject(w, b) == b \in Bodies \/ w.sensorObject

\* gameObject.prop of a body (the water volume's object has no traits)
propOf(w, b) == IF b \in Bodies THEN w.obj[b].prop ELSE [k \in WorldKeys |-> FALSE]

\* WorldObject.canSetFire(obj): burning, or a lightning source
objCanSetFire(w, b) ==
  /\ b \in Bodies
  /\ \/ Truthy(w.obj[b].prop, "burns") \/ Truthy(w.obj[b].prop, "lightning")
     \/ w.obj[b].fire

\* water.addFloating(body) / water.removeFloating(body)
addFloating(w, b) == [w EXCEPT !.floating = @ \cup {b}]
removeFloating(w, b) == [w EXCEPT !.floating = @ \ {b}]

\* body.gameObject?.addWet()
addWet(w, b) == IF b \in Bodies THEN [w EXCEPT !.obj[b].wet = TRUE] ELSE w

\* gameObject.prop.floats = false
clearFloats(w, b) ==
  IF b \in Bodies THEN [w EXCEPT !.obj[b].prop["floats"] = FALSE] ELSE w

\* registerCollision, 'collisionstart', one pair: splash, floating and wet
\* for the body entering the sensor; the body touching a heavy game object
\* is taken off the floating list
collisionStartPair(w, a, b) ==
  LET w1 == IF a = Sensor THEN addWet(addFloating(w, b), b) ELSE w
      w2 == IF b = Sensor THEN addWet(addFloating(w1, a), a) ELSE w1
      w3 == IF Truthy(propOf(w2, a), "heavy")
            THEN clearFloats(removeFloating(w2, b), b) ELSE w2
      w4 == IF Truthy(propOf(w3, b), "heavy")
            THEN clearFloats(removeFloating(w3, a), a) ELSE w3
  IN IF hasGameObject(w2, a) /\ hasGameObject(w2, b) THEN w4 ELSE w2

\* registerCollision, 'collisionend', one pair
collisionEndPair(w, a, b) ==
  LET w1 == IF a = Sensor THEN removeFloating(w, b) ELSE w
  IN IF b = Sensor THEN removeFloating(w1, a) ELSE w1

\* WorldObject.addFire(): the burn effect starts
addFire(o) == [o EXCEPT !.fire = TRUE]

\* WorldObject.clearEffects()
clearEffects(o) == [o EXCEPT !.fire = FALSE, !.wet = FALSE]

\* a de-rust that does not look at rusted
collisionDerustUnguarded(o) ==
  [o EXCEPT !.prop["rusted"] = FALSE, !.texture = "key"]

\* registerCollisionActive: if (obj.prop?.rusted) { rusted = false;
\* setTexture('key') }
collisionDerust(o) ==
  IF Truthy(o.prop, "rusted")
  THEN [o EXCEPT !.prop["rusted"] = FALSE, !.texture = "key"]
  ELSE o

\* 'collisionactive' with the rules of the bodyA side only
collisionActivePairOneWay(w, a, b) ==
  LET flammable(x) == Truthy(w.obj[x].prop, "wooden") \/ Truthy(w.obj[x].prop, "ice")
      w1 == IF objCanSetFire(w, a) /\ flammable(b)
            THEN [w EXCEPT !.obj[b] = addFire(@)] ELSE w
      w2 == IF Truthy(w1.obj[a].prop, "lightning")
            THEN [w1 EXCEPT !.obj[b] = collisionDerust(@)] ELSE w1
  IN IF a \in Bodies /\ b \in Bodies THEN w2 ELSE w

\* registerCollisionActive, 'collisionactive', one pair: ignition and
\* conduction from A to B, then from B to A
collisionActivePair(w, a, b) ==
  LET flammable(v, x) == Truthy(v.obj[x].prop, "wooden") \/ Truthy(v.obj[x].prop, "ice")
      w1 == IF objCanSetFire(w, a) /\ flammable(w, b)
            THEN [w EXCEPT !.obj[b] = addFire(@)] ELSE w
      w2 == IF Truthy(w1.obj[a].prop, "lightning")
            THEN [w1 EXCEPT !.obj[b] = collisionDerust(@)] ELSE w1
      w3 == IF objCanSetFire(w2, b) /\ flammable(w2, a)
            THEN [w2 EXCEPT !.obj[a] = addFire(@)] ELSE w2
      w4 == IF Truthy(w3.obj[b].prop, "lightning")
            THEN [w3 EXCEPT !.obj[a] = collisionDerust(@)] ELSE w3
  IN IF a \in Bodies /\ b \in Bodies THEN w4 ELSE w

\* registerCollisionActive, one pair: how many addFire() calls each entity
\* receives (rule 1 on bodyB, then rule 3 on bodyA, which sees bodyB as rule
\* 1 left it; the de-rust rules in between touch neither test)
addFireCalls(w, a, b) ==
  LET flammable(v, x) == Truthy(v.obj[x].prop, "wooden") \/ Truthy(v.obj[x].prop, "ice")
      first == objCanSetFire(w, a) /\ flammable(w, b)
      w1 == IF first THEN [w EXCEPT !.obj[b] = addFire(@)] ELSE w
      second == objCanSetFire(w1, b) /\ flammable(w1, a)
  IN [x \in Bodies |->
        IF a \in Bodies /\ b \in Bodies
        THEN (IF x = b /\ first THEN 1 ELSE 0) + (IF x = a /\ second THEN 1 ELSE 0)
        ELSE 0]

\* processCommand, case 'electrify', per target
commandElectrify(o) ==
  IF Truthy(o.prop, "rusted")
  THEN [o EXCEPT !.prop["rusted"] = FALSE,
                 !.texture = IF o.cls = "RustedKey" THEN "key" ELSE @]
  ELSE o

\* processCommand, case 'setfire', per target
commandSetfire(o) ==
  [addFire(clearEffects(o)) EXCEPT !.prop["explodes"] = TRUE, !.life = "random"]

\* WorldObject.createMagneticForce(): a force field scoped to the entity is
\* created
createMagneticForce(o) == [o EXCEPT !.fields = @ + 1]

\* WorldObject.updateMagneticField(): the existing field is refreshed
updateMagneticField(o) == o

\* processCommand, case 'magnetize', per target
commandMagnetize(o) ==
  updateMagneticField(createMagneticForce(
    [o EXCEPT !.prop["metal"] = TRUE, !.prop["magnetic"] = TRUE]))

\* processCommand: the targets of a selector ('all', or a name or property)
commandTargets(w, target) ==
  IF target = "all" THEN Bodies
  ELSE {b \in Bodies :
          \/ w.obj[b].name = target
          \/ (target \in WorldKeys /\ w.obj[b].prop[target])}

\* this.children.list: the world's objects in display order
BodyOrder == <<"b1", "b2">>

\* getWorldObjectList(filter): the world objects, or with a filter those whose
\* property bag has the filter's key set to true
getWorldObjectList(w, filterKey) ==
  SelectSeq(BodyOrder,
            LAMBDA b : filterKey = ""
                       \/ (filterKey \in WorldKeys /\ w.obj[b].prop[filterKey]))

\* processCommand: the targets array of a selector: all objects, or the
\* objects of that name followed by the objects with that property
targetList(w, target) ==
  IF target = "all" THEN getWorldObjectList(w, "")
  ELSE SelectSeq(BodyOrder, LAMBDA b : w.obj[b].name = target)
         \o getWorldObjectList(w, target)

\* the body of a verb's forEach callback
applyVerb(o, verb) ==
  IF verb = "setfire" THEN commandSetfire(o)
  ELSE IF verb = "electrify" THEN commandElectrify(o)
  ELSE IF verb = "magnetize" THEN commandMagnetize(o)
  ELSE o

\* targets.forEach(callback) on the world's objects
RECURSIVE forEachTarget(_, _, _)
forEachTarget(objs, targets, verb) ==
  IF targets = << >> THEN objs
  ELSE forEachTarget(
         [objs EXCEPT ![Head(targets)] = applyVerb(@, verb)],
         Tail(targets), verb)

\* processCommand(rawCommand, commandJson), verbs 'setfire', 'electrify' and
\* 'magnetize'
processCommand(w, verb, target) ==
  [w EXCEPT !.obj = forEachTarget(w.obj, targetList(w, target), verb)]

MaxTicks == 2

NoContact == [phase |-> "apart", a |-> "b1", inWater |-> {}, ticks |-> 0, last |-> "none"]
NoWorld ==
  [obj |-> [b \in Bodies |-> GameObject("none", "", {}, "")],
   floating |-> {}, sensorObject |-> FALSE]
WorldIdle == world = NoWorld /\ contact = NoContact

otherBody(b) == CHOOSE c \in Bodies : c # b

\* 'collisionstart' for the two bodies, either of them reported as bodyA
CollisionStart(a) ==
  /\ contact.phase = "apart"
  /\ world' = collisionStartPair(world, a, otherBody(a))
  /\ contact' = [contact EXCEPT !.phase = "begun", !.a = a, !.ticks = 0,
                                !.last = "start"]
  /\ UNCHANGED <<pipeVars, propVars, iceVars, drawVars, cacheVars>>

\* 'collisionactive' for the pair in contact, in the pair's body order
CollisionActiveTick ==
  /\ contact.phase \in {"begun", "active"} /\ contact.ticks < MaxTicks
  /\ world' = collisionActivePair(world, contact.a, otherBody(contact.a))
  /\ contact' = [contact EXCEPT !.phase = "active", !.ticks = @ + 1,
                                !.last = "active"]
  /\ UNCHANGED <<pipeVars, propVars, iceVars, drawVars, cacheVars>>

\* 'collisionend' for the pair in contact
CollisionEnd ==
  /\ contact.phase \in {"begun", "active"}
  /\ world' = collisionEndPair(world, contact.a, otherBody(contact.a))
  /\ contact' = [contact EXCEPT !.phase = "apart", !.last = "end"]
  /\ UNCHANGED <<pipeVars, propVars, iceVars, drawVars, cacheVars>>

\* a body enters the water: 'collisionstart' with the sensor on either side
SensorStart(b, sensorIsA) ==
  /\ b \in Bodies \ contact.inWater
  /\ world' = IF sensorIsA THEN collisionStartPair(world, Sensor, b)
              ELSE collisionStartPair(world, b, Sensor)
  /\ contact' = [contact EXCEPT !.inWater = @ \cup {b}, !.last = "sensorStart"]
  /\ UNCHANGED <<pipeVars, propVars, iceVars, drawVars, cacheVars>>

\* a body leaves the water: 'collisionend' with the sensor
SensorEnd(b, sensorIsA) ==
  /\ b \in contact.inWater
  /\ world' = IF sensorIsA THEN collisionEndPair(world, Sensor, b)
              ELSE collisionEndPair(world, b, Sensor)
  /\ contact' = [contact EXCEPT !.inWater = @ \ {b}, !.last = "sensorEnd"]
  /\ UNCHANGED <<pipeVars, propVars, iceVars, drawVars, cacheVars>>

CommandVerbs == {"setfire", "electrify"}
CommandTargets == {"all", "rusted", "wooden", "log"}

\* a command arrives from the command interface
Command(verb, target) ==
  /\ world' = processCommand(world, verb, target)
  /\ contact' = [contact EXCEPT !.last = "command"]
  /\ UNCHANGED <<pipeVars, propVars, iceVars, drawVars, cacheVars>>

(***************************************************************************)
(* PROPERTY RESOLUTION AS A FUNCTION                                       *)
(***************************************************************************)

MaxWords == 2
PropTypes == {"fire", "rock", "ice", "wind"}
PropWords == {"hot", "light", "metal", "zzz"}
WordLists ==
  UNION {[1 .. n -> PropWords] : n \in 0 .. MaxWords}

\* trait names a classifier may come up with: two of the vocabulary, one not
ClassifierKeys == {"burns", "heavy", "sticky"}

RawInputs ==
  {FlatResponse(t, parsePropertiesFromString(t, w)) : t \in PropTypes, w \in WordLists}
  \cup {FlatResponse("thing", m) :
          m \in UNION {[d -> BOOLEAN] : d \in SUBSET ClassifierKeys}}
  \cup {ListResponse("thing", a) : a \in SUBSET ClassifierKeys}
  \cup {BareResponse("thing")}

NotResolved == [done |-> FALSE, additional |-> EmptyProps, final |-> EmptyProps]

\* processCanvas: additionalProperties = extractPropertiesFromGeminiData(...)
\* and the merge into finalProperties
Resolve ==
  /\ ~extracted.done /\ rawData.shape # "none"
  /\ extracted' =
       [done |-> TRUE,
        additional |-> extractPropertiesFromGeminiData(rawData),
        final |-> mergeFinalProperties(extractPropertiesFromGeminiData(rawData))]
  /\ UNCHANGED <<rawData, pipeVars, iceVars, worldVars, drawVars, cacheVars>>

(***************************************************************************)
(* THE TEMPORARY CANVAS AND ITS SUBMIT TIMER                               *)
(***************************************************************************)

MaxTimers == 3

\* tempCanvasVisible, the pointer being down, quickClick of
\* attachDrawingListeners, the setTimeout handles of canvasUpEvent that have
\* neither fired nor been cleared, this.sendDelay (0: never set), the
\* handles issued so far, the processCanvas calls since the canvas was
\* created, whether the canvas was dismissed, and whether processCanvas ran
\* on a dismissed canvas
NoCanvas ==
  [visible |-> FALSE, down |-> FALSE, quickClick |-> FALSE, pending |-> {},
   sendDelay |-> 0, issued |-> 0, runs |-> 0, dismissed |-> FALSE,
   ranDismissed |-> FALSE]
DrawIdle == canvas = NoCanvas

\* clearTimeout(this.sendDelay)
clearSendDelay(c) == [c EXCEPT !.pending = @ \ {c.sendDelay}]

\* destroyTempCanvas(): tempCanvasVisible = false, ...,
\* clearTimeout(this.sendDelay), wipeTempCanvas()
destroyTempCanvas(c) == clearSendDelay([c EXCEPT !.visible = FALSE])

\* createTempCanvas(pointer)
createTempCanvas(c) ==
  [c EXCEPT !.visible = TRUE, !.runs = 0, !.dismissed = FALSE]

\* canvasDownEvent: if (this.sendDelay) clearTimeout(this.sendDelay)
canvasDownEvent(c) == IF c.sendDelay # 0 THEN clearSendDelay(c) ELSE c

\* canvasUpEvent: this.sendDelay = setTimeout(..., 1500)
canvasUpEvent(c) ==
  [c EXCEPT !.pending = @ \cup {c.issued + 1}, !.sendDelay = c.issued + 1,
            !.issued = @ + 1]

\* this.input.on('pointerdown'), inside or outside the temporary canvas
PointerDown(inside) ==
  /\ ~canvas.down
  /\ canvas' =
       IF canvas.visible /\ inside
       THEN canvasDownEvent([canvas EXCEPT !.down = TRUE])
       ELSE [canvas EXCEPT !.down = TRUE, !.quickClick = TRUE]
  /\ UNCHANGED <<pipeVars, propVars, iceVars, worldVars, cacheVars>>

\* quickClickTimer fires
QuickClickExpires ==
  /\ canvas.quickClick
  /\ canvas' = [canvas EXCEPT !.quickClick = FALSE]
  /\ UNCHANGED <<pipeVars, propVars, iceVars, worldVars, cacheVars>>

\* this.input.on('pointerup'), inside or outside the temporary canvas
PointerUp(inside) ==
  /\ canvas.down
  /\ (canvas.visible /\ inside) => canvas.issued < MaxTimers
  /\ LET c == [canvas EXCEPT !.down = FALSE] IN
     canvas' =
       IF c.visible
       THEN IF inside THEN canvasUpEvent(c)
            ELSE [destroyTempCanvas(c) EXCEPT !.quickClick = FALSE,
                                              !.dismissed = TRUE]
       ELSE IF c.quickClick
            THEN createTempCanvas([c EXCEPT !.quickClick = FALSE])
            ELSE c
  /\ UNCHANGED <<pipeVars, propVars, iceVars, worldVars, cacheVars>>

\* keydown-ESC: if (this.tempCanvasVisible) this.destroyTempCanvas()
Escape ==
  /\ canvas.visible
  /\ canvas' = [destroyTempCanvas(canvas) EXCEPT !.dismissed = TRUE]
  /\ UNCHANGED <<pipeVars, propVars, iceVars, worldVars, cacheVars>>

\* the oldest pending timer of canvasUpEvent fires: processCanvas();
\* drawingInProgress = false; destroyTempCanvas()
SubmitTimerFires ==
  /\ canvas.pending # {}
  /\ LET id == CHOOSE i \in canvas.pending : \A j \in canvas.pending : i <= j
         c == [canvas EXCEPT !.pending = @ \ {id}, !.runs = @ + 1,
                             !.ranDismissed = @ \/ canvas.dismissed]
     IN canvas' = destroyTempCanvas(c)
  /\ UNCHANGED <<pipeVars, propVars, iceVars, worldVars, cacheVars>>

(***************************************************************************)
(* THE SERVER'S IMAGE AND FRAME CACHE (cache-manager.ts)                   *)
(***************************************************************************)

\* aiConfig.cache.poolSize
poolSize == 4
Slots == 0 .. (poolSize - 1)

\* getCachedFrames reads frame0.png .. frame3.png
FramesRead == 0 .. 3

\* the longest frame list handed to cacheFrames
MaxFrames == 5

\* the names a request can carry, and String.prototype.toLowerCase on them
ObjectTypes == {"Cat", "cat"}
VisualStyles == {"Pixel", "pixel"}
toLowerCase(x) ==
  CASE x = "Cat" -> "cat" [] x = "Pixel" -> "pixel" [] OTHER -> x

\* base64 strings (one of them without padding), Buffer.from(s, "base64")
\* and buffer.toString("base64")
Base64Inputs == {"QQ==", "QQ", "Qg=="}
fromBase64(b) == IF b = "Qg==" THEN "B" ELSE "A"
toBase64(bytes) == IF bytes = "B" THEN "Qg==" ELSE "QQ=="
Absent == "absent"

\* getCacheKey(objectType, visualStyle, variation, generationType)
getCacheKey(objectType, visualStyle, variation, generationType) ==
  << generationType, toLowerCase(objectType), toLowerCase(visualStyle),
     variation >>

\* getCachePath(cacheDir, cacheKey): the pool and the slot of the file
getCachePath(cacheKey) ==
  [pool |-> << cacheKey[1], cacheKey[2], cacheKey[3] >>, slot |-> cacheKey[4]]

\* getFramesCachePath(framesCacheDir, objectType, visualStyle)
getFramesCachePath(objectType, visualStyle) ==
  << toLowerCase(objectType), toLowerCase(visualStyle) >>

PoolKeys == {<< "local", toLowerCase(o), toLowerCase(v) >> :
               o \in ObjectTypes, v \in VisualStyles}
FrameDirs == {getFramesCachePath(o, v) : o \in ObjectTypes, v \in VisualStyles}

\* a record of the last call: its arguments and its CacheResult
NoCall ==
  [op |-> "none", objectType |-> "", visualStyle |-> "", success |-> FALSE,
   data |-> << >>, frames |-> << >>]

\* the cache directory: no image, no frames directory
NoCache ==
  [images |-> [k \in PoolKeys |-> [i \in Slots |-> Absent]],
   dirs |-> {},
   frames |-> [d \in FrameDirs |-> [i \in 0 .. (MaxFrames - 1) |-> Absent]],
   last |-> NoCall]
CacheIdle == cache = NoCache

\* fs.existsSync(cachePath)
imageExists(c, path) == c.images[path.pool][path.slot] # Absent

\* the variations of a pool that exist (the loop over poolSize of
\* getCachedImage and cacheImage)
existingVariations(c, objectType, visualStyle, generationType) ==
  {i \in Slots :
     imageExists(c, getCachePath(getCacheKey(objectType, visualStyle, i,
                                              generationType)))}

\* a slot choice that always takes a random slot
chooseVariationRandom(existing, random) == random

\* cacheImage: the lowest variation that does not exist, or a random one
\* when the pool is full
chooseVariation(existing, random) ==
  IF Slots \ existing # {}
  THEN CHOOSE i \in Slots \ existing : \A j \in Slots \ existing : i <= j
  ELSE random

\* cacheManager.cacheImage; random: floor(Math.random() * poolSize);
\* ok: writeFileSync returns (or throws, and the catch answers failure)
cacheImage(c, objectType, visualStyle, base64Image, generationType, random, ok) ==
  LET existing == existingVariations(c, objectType, visualStyle, generationType)
      variation == chooseVariation(existing, random)
      path == getCachePath(getCacheKey(objectType, visualStyle, variation,
                                       generationType))
      call == [NoCall EXCEPT !.op = "cacheImage", !.objectType = objectType,
                             !.visualStyle = visualStyle, !.success = ok]
  IN IF ok
     THEN [c EXCEPT !.images[path.pool][path.slot] = fromBase64(base64Image),
                    !.last = call]
     ELSE [c EXCEPT !.last = call]

\* a lookup that answers from a pool that is not full
cachedImageResultLenient(c, objectType, visualStyle, generationType, random) ==
  LET available == existingVariations(c, objectType, visualStyle, generationType)
  IN IF available # {}
     THEN LET i == IF random \in available THEN random
                   ELSE CHOOSE j \in available : TRUE
              path == getCachePath(getCacheKey(objectType, visualStyle, i,
                                               generationType))
          IN [success |-> TRUE,
              data |-> << toBase64(c.images[path.pool][path.slot]) >>]
     ELSE [success |-> FALSE, data |-> << >>]

\* cacheManager.getCachedImage, its CacheResult; random: the index
\* floor(Math.random() * availableVariations.length)
cachedImageResult(c, objectType, visualStyle, generationType, random) ==
  LET available == existingVariations(c, objectType, visualStyle, generationType)
  IN IF Cardinality(available) = poolSize
     THEN LET path == getCachePath(getCacheKey(objectType, visualStyle, random,
                                               generationType))
          IN [success |-> TRUE,
              data |-> << toBase64(c.images[path.pool][path.slot]) >>]
     ELSE [success |-> FALSE, data |-> << >>]

\* cacheManager.getCachedImage
getCachedImage(c, objectType, visualStyle, generationType, random) ==
  LET res == cachedImageResult(c, objectType, visualStyle, generationType, random)
  IN [c EXCEPT !.last =
        [NoCall EXCEPT !.op = "getCachedImage", !.objectType = objectType,
                       !.visualStyle = visualStyle, !.success = res.success,
                       !.data = res.data]]

\* cacheManager.cacheFrames: mkdir when the directory is missing, then one
\* file per frame of the list; ok: the writes return (or the first throws)
cacheFrames(c, objectType, visualStyle, frames, ok) ==
  LET dir == getFramesCachePath(objectType, visualStyle)
      call == [NoCall EXCEPT !.op = "cacheFrames", !.objectType = objectType,
                             !.visualStyle = visualStyle, !.success = ok,
                             !.frames = frames]
      c1 == [c EXCEPT !.dirs = @ \cup {dir}, !.last = call]
  IN IF ok
     THEN [c1 EXCEPT !.frames[dir] =
             [i \in 0 .. (MaxFrames - 1) |->
                IF i < Len(frames) THEN fromBase64(frames[i + 1])
                ELSE c.frames[dir][i]]]
     ELSE c1

\* cacheManager.getCachedFrames, its CacheResult
cachedFramesResult(c, objectType, visualStyle) ==
  LET dir == getFramesCachePath(objectType, visualStyle) IN
  IF dir \notin c.dirs THEN [success |-> FALSE, data |-> << >>]
  ELSE IF \E i \in FramesRead : c.frames[dir][i] = Absent
       THEN [success |-> FALSE, data |-> << >>]
       ELSE [success |-> TRUE,
             data |-> [n \in 1 .. Cardinality(FramesRead) |->
                         toBase64(c.frames[dir][n - 1])]]

\* cacheManager.getCachedFrames
getCachedFrames(c, objectType, visualStyle) ==
  LET res == cachedFramesResult(c, objectType, visualStyle)
  IN [c EXCEPT !.last =
        [NoCall EXCEPT !.op = "getCachedFrames", !.objectType = objectType,
                       !.visualStyle = visualStyle, !.success = res.success,
                       !.data = res.data]]

\* the frame lists a caller can hand over: up to MaxFrames frames that
\* alternate between two images, starting with either
FrameLists ==
  {[i \in 1 .. n |-> IF (i + k) % 2 = 0 THEN "QQ==" ELSE "Qg=="] :
     n \in 0 .. MaxFrames, k \in 0 .. 1}

CacheImage(o, v, b, random, ok) ==
  /\ cache' = cacheImage(cache, o, v, b, "local", random, ok)
  /\ UNCHANGED <<pipeVars, propVars, iceVars, worldVars, drawVars>>

GetCachedImage(o, v, random) ==
  /\ cache' = getCachedImage(cache, o, v, "local", random)
  /\ UNCHANGED <<pipeVars, propVars, iceVars, worldVars, drawVars>>

CacheFrames(o, v, frames, ok) ==
  /\ cache' = cacheFrames(cache, o, v, frames, ok)
  /\ UNCHANGED <<pipeVars, propVars, iceVars, worldVars, drawVars>>

GetCachedFrames(o, v) ==
  /\ cache' = getCachedFrames(cache, o, v)
  /\ UNCHANGED <<pipeVars, propVars, iceVars, worldVars, drawVars>>

(***************************************************************************)
(* SPECIFICATIONS                                                          *)
(***************************************************************************)

Generators == {"gemini", "imagen", "veo"}

PipeIdle ==
  /\ run = [r \in Runs |-> RunInit]
  /\ phaserObj = [r \in Runs |-> NoObject]
  /\ placeholder = [r \in Runs |-> NoObject]
  /\ loadingParticles = [r \in Runs |-> "none"]
  /\ veoParticles = [r \in Runs |-> "none"]
  /\ genRequests = [r \in Runs |-> 0]
  /\ textures = {}
  /\ loadQueue = {}
  /\ loadListeners = << >>
  /\ b64Pending = {}
  /\ onloadListeners = {}
  /\ tornDown = FALSE

PropsIdle == rawData = NoResponse /\ extracted = NotResolved
IceIdle == icewall = NoIce /\ iceEvent = << >>

\* what the backends can answer in the pipeline specifications
OllamaOutcomes ==
  {OllamaOutcome("down", "", << >>), OllamaOutcome("error", "", << >>),
   OllamaOutcome("analysis", "fire", << >>),
   OllamaOutcome("analysis", "rock", <<"metal">>),
   OllamaOutcome("analysis", "violence", << >>)}

GeminiOutcomes ==
  {GeminiOutcome("error", "", {}), GeminiOutcome("neterr", "", {}),
   GeminiOutcome("blocked", "", {}), GeminiOutcome("untyped", "", {}),
   GeminiOutcome("analysis", "fire", {"burns"}),
   GeminiOutcome("analysis", "violence", {})}

MaxImages == 2
GenerateAnswers ==
  {GenerateAnswer(k, 0) : k \in {"httpError", "blocked", "errorText", "hashJson"}}
  \cup {GenerateAnswer("b64", n) : n \in 1 .. MaxImages}

LoaderNext ==
  \/ \E key \in loadQueue, ok \in BOOLEAN : LoadFileDone(key, ok)
  \/ \E job \in b64Pending : TextureDecoded(job)

ClassifyNext ==
  \/ \E r \in Runs : StartRun(r)
  \/ \E r \in Runs, o \in OllamaOutcomes : PrimaryResponds(r, o)
  \/ \E r \in Runs, g \in GeminiOutcomes : SecondaryResponds(r, g)
  \/ \E r \in Runs, a \in GenerateAnswers, d \in {"throws", "quiet"} :
       GenerateResponds(r, a, d)

PollNext ==
  \/ \E r \in Runs, st \in {"errorFile", "failed", "notReady", "ready"} : PollStatus(r, st)
  \/ \E r \in Runs : PollWaitDone(r)
  \/ \E r \in Runs : FramesResolved(r)
  \/ \E r \in Runs : AnimTransfer(r, {}, {}, "none")
  \/ \E r \in Runs : DestroyOriginal(r)

\* one drawing, any generator setting, scene teardown at any moment
Init ==
  /\ imageGenerator \in Generators
  /\ drawingsLeft = 1
  /\ PipeIdle /\ PropsIdle /\ IceIdle /\ WorldIdle /\ DrawIdle /\ CacheIdle

Next == ClassifyNext \/ PollNext \/ LoaderNext \/ SafeSceneTransition

Spec == Init /\ [][Next]_vars

\* Spec with every backend call, timer and asset load eventually completing
\* or failing
SpecLive == Init /\ [][Next]_vars /\ WF_vars(Next)

\* one drawing with the veo generator and backends that answer, the entity
\* carrying effects and emitters when it is swapped for its animation
InitSwap ==
  /\ imageGenerator = "veo"
  /\ drawingsLeft = 1
  /\ PipeIdle /\ PropsIdle /\ IceIdle /\ WorldIdle /\ DrawIdle /\ CacheIdle

NextSwap ==
  \/ \E r \in Runs : StartRun(r)
  \/ \E r \in Runs : PrimaryResponds(r, OllamaOutcome("analysis", "fire", << >>))
  \/ \E r \in Runs : GenerateResponds(r, GenerateAnswer("hashJson", 0), "quiet")
  \/ \E r \in Runs : PollStatus(r, "ready")
  \/ \E key \in loadQueue : LoadFileDone(key, TRUE)
  \/ \E r \in Runs : FramesResolved(r)
  \/ \E r \in Runs, had \in SUBSET TransferEffects, held \in SUBSET EmitterSet,
        bad \in {"none"} \cup TransferEffects \cup EmitterSet :
       AnimTransfer(r, had, held, bad)
  \/ \E r \in Runs : DestroyOriginal(r)

SpecSwap == InitSwap /\ [][NextSwap]_vars

\* drawings submitted one after the other under the default settings
\* (gameSettings.imageGenerator = 'imagen'), earlier runs still in flight
InitRapid ==
  /\ imageGenerator = "imagen"
  /\ drawingsLeft = MaxRuns
  /\ PipeIdle /\ PropsIdle /\ IceIdle /\ WorldIdle /\ DrawIdle /\ CacheIdle

NextRapid ==
  \/ \E r \in Runs : StartRun(r)
  \/ \E r \in Runs, o \in OllamaOutcomes : PrimaryResponds(r, o)
  \/ \E r \in Runs, g \in GeminiOutcomes : SecondaryResponds(r, g)
  \/ \E r \in Runs, a \in GenerateAnswers : GenerateResponds(r, a, "quiet")
  \/ \E job \in b64Pending : TextureDecoded(job)

SpecRapid == InitRapid /\ [][NextRapid]_vars

\* the property resolution applied to every response of RawInputs
InitProps ==
  /\ rawData \in RawInputs
  /\ extracted = NotResolved
  /\ imageGenerator = "imagen" /\ drawingsLeft = 0
  /\ PipeIdle /\ IceIdle /\ WorldIdle /\ DrawIdle /\ CacheIdle

NextProps == Resolve

SpecProps == InitProps /\ [][NextProps]_vars

\* an ice wall of some height under collisionactive events
InitIce ==
  /\ icewall \in {[exists |-> TRUE, pos |-> [x |-> 0, y2 |-> 0],
                   size |-> [x |-> 3, y |-> h]] : h \in 1 .. IceHeight0}
  /\ iceEvent = << >>
  /\ imageGenerator = "imagen" /\ drawingsLeft = 0
  /\ PipeIdle /\ PropsIdle /\ WorldIdle /\ DrawIdle /\ CacheIdle

NextIce == \E ev \in IceEvents : CollisionActive(ev)

SpecIce == InitIce /\ [][NextIce]_vars


\* two game objects of any kind, in and out of contact with each other and
\* with the water, and commands in between
InitWorld ==
  /\ world \in {[obj |-> o, floating |-> {}, sensorObject |-> so] :
                  o \in [Bodies -> EntityKinds], so \in BOOLEAN}
  /\ contact = NoContact
  /\ imageGenerator = "imagen" /\ drawingsLeft = 0
  /\ PipeIdle /\ PropsIdle /\ IceIdle /\ DrawIdle /\ CacheIdle

NextWorld ==
  \/ \E a \in Bodies : CollisionStart(a)
  \/ CollisionActiveTick
  \/ CollisionEnd
  \/ \E b \in Bodies, sa \in BOOLEAN : SensorStart(b, sa)
  \/ \E b \in Bodies, sa \in BOOLEAN : SensorEnd(b, sa)
  \/ \E v \in CommandVerbs, t \in CommandTargets : Command(v, t)

SpecWorld == InitWorld /\ [][NextWorld]_vars

\* Ignition and magnetism: two entities, one of which may be burning already
\* (a log that a third entity has set alight), touch and part while magnetize
\* commands come in.
MaxFields == 2
ForceTargets == {"all", "metal", "log", "ice"}

\* a drawing classified as ice: its name and its one trait are the same word
IceDrawing == GameObject("WorldObject", "ice", {"ice"}, "ice")

InitForce ==
  /\ world \in {[obj |-> o, floating |-> {}, sensorObject |-> FALSE] :
                  o \in [Bodies -> EntityKinds \cup
                            {addFire(GameObject("WorldObject", "log",
                                                {"wooden", "floats"}, "log")),
                             IceDrawing}]}
  /\ contact = NoContact
  /\ imageGenerator = "imagen" /\ drawingsLeft = 0
  /\ PipeIdle /\ PropsIdle /\ IceIdle /\ DrawIdle /\ CacheIdle

NextForce ==
  \/ \E a \in Bodies : CollisionStart(a)
  \/ CollisionActiveTick
  \/ CollisionEnd
  \/ \E t \in ForceTargets :
       /\ \A b \in commandTargets(world, t) : world.obj[b].fields < MaxFields
       /\ Command("magnetize", t)

SpecForce == InitForce /\ [][NextForce]_vars

\* The temporary canvas under pointer events, the escape key and its timers.
InitDraw ==
  /\ canvas = NoCanvas
  /\ imageGenerator = "imagen" /\ drawingsLeft = 0
  /\ PipeIdle /\ PropsIdle /\ IceIdle /\ WorldIdle /\ CacheIdle

NextDraw ==
  \/ \E inside \in BOOLEAN : PointerDown(inside)
  \/ \E inside \in BOOLEAN : PointerUp(inside)
  \/ QuickClickExpires
  \/ Escape
  \/ SubmitTimerFires

SpecDraw == InitDraw /\ [][NextDraw]_vars

\* The image pool of the server cache under cacheImage and getCachedImage.
InitCache ==
  /\ cache = NoCache
  /\ imageGenerator = "imagen" /\ drawingsLeft = 0
  /\ PipeIdle /\ PropsIdle /\ IceIdle /\ WorldIdle /\ DrawIdle

NextCache ==
  \/ \E o \in ObjectTypes, v \in VisualStyles, b \in Base64Inputs,
        random \in Slots, ok \in BOOLEAN : CacheImage(o, v, b, random, ok)
  \/ \E o \in ObjectTypes, v \in VisualStyles, random \in Slots :
       GetCachedImage(o, v, random)

SpecCache == InitCache /\ [][NextCache]_vars

\* The frame cache under cacheFrames and getCachedFrames.
NextFrames ==
  \/ \E o \in ObjectTypes, v \in VisualStyles, f \in FrameLists,
        ok \in BOOLEAN : CacheFrames(o, v, f, ok)
  \/ \E o \in ObjectTypes, v \in VisualStyles : GetCachedFrames(o, v)

SpecFrames == InitCache /\ [][NextFrames]_vars

(***************************************************************************)
(* CLAIMS                                                                  *)
(***************************************************************************)

GeneratingInScene ==
  {r \in Runs : phaserObj[r].state = "scene" /\ Truthy(phaserObj[r].prop, "generating")}

\* C1: when a second drawing is submitted while an earlier run's placeholder
\* still has generating=true, the earlier run is cancelled first, so at most
\* one entity with generating=true is in the scene in every reachable state.
C1_AtMostOneGenerating == Cardinality(GeneratingInScene) <= 1

\* C2: after safeSceneTransition has interrupted a run, no loading particles,
\* veo particles or blink tween of a run are still active and no entity of a
\* run is in the scene.
C2_TeardownLeavesNothing ==
  tornDown =>
    \A r \in Runs :
      /\ loadingParticles[r] # "active"
      /\ veoParticles[r] # "active"
      /\ phaserObj[r].blinkTween # "active"
      /\ phaserObj[r].state # "scene"
      /\ placeholder[r].state # "scene"

\* the run of an asynchronous handle that never reported ready is over, with
\* the on-demand load of the static image finished and the entity alive
ExhaustedNeverReady(r) ==
  /\ run[r].pc = "done" /\ run[r].pollEnd = "exhausted" /\ ~run[r].everReady
  /\ StaticKey(r) \notin loadQueue
  /\ phaserObj[r].state = "scene"

\* C3: for a handle that never reports ready within the attempt budget, the
\* run ends with the entity not animated, its blink tween stopped, alpha 1
\* and generating=false, whenever the static image load finished relative to
\* the polling rounds.
C3_NeverReadyEndsStatic ==
  \A r \in Runs :
    ExhaustedNeverReady(r) =>
      /\ placeholder[r].state = "none" /\ ~phaserObj[r].anim
      /\ phaserObj[r].blinkTween = "stopped"
      /\ phaserObj[r].alpha = "1"
      /\ ~Truthy(phaserObj[r].prop, "generating")

C3_Witness ==
  \E r \in Runs :
    /\ ExhaustedNeverReady(r)
    /\ run[r].retryCount = maxRetries
    /\ StaticKey(r) \notin textures

\* C4: for every classification response, flat map or attribute list, the
\* property set resolved from it has only keys of the vocabulary.
C4_ClosedVocabulary ==
  extracted.done =>
    /\ DOMAIN extracted.additional \subseteq Vocabulary
    /\ DOMAIN extracted.final \subseteq Vocabulary

\* C5: when the primary and the fallback classification both return no
\* result, the run ends with the placeholder and its loading particles
\* destroyed, no generation request issued and no entity of the run in the
\* scene.
C5_BothUnavailableRemoves ==
  \A r \in Runs :
    (run[r].primary = "unavailable" /\ run[r].secondary = "unavailable") =>
      /\ run[r].pc = "done"
      /\ phaserObj[r].state = "destroyed"
      /\ placeholder[r].state = "none"
      /\ loadingParticles[r] = "destroyed"
      /\ genRequests[r] = 0

C5_Witness ==
  \E r \in Runs :
    /\ run[r].primary = "unavailable" /\ run[r].secondary = "unavailable"
    /\ run[r].pc = "done" /\ ~tornDown

\* C6: when a classification backend, primary or secondary, signals
\* moderation rejection, the run fails: placeholder and effects cleaned up,
\* no generation request issued, no entity.
C6_RejectionStopsRun ==
  \A r \in Runs :
    (run[r].primary = "rejected" \/ run[r].secondary = "rejected") =>
      /\ genRequests[r] = 0
      /\ run[r].pc = "done" =>
           (phaserObj[r].state = "destroyed" /\ loadingParticles[r] = "destroyed")

\* C7: when the generation backend answers with the moderation-rejection
\* signal, for every generator, the run ends with the placeholder torn down
\* and no entity; the entity is never finalized.
C7_GenerationRejectionRemoves ==
  \A r \in Runs :
    (run[r].generation = "blocked" /\ ~tornDown) =>
      /\ phaserObj[r].state = "destroyed"
      /\ loadingParticles[r] = "destroyed"
      /\ run[r].outcome \in {"removed", "failed"}

\* the entity a finished run has left: the replacement on asynchronous
\* success, the original otherwise
FinalEntity(r) ==
  IF run[r].outcome = "veoSuccess" THEN placeholder[r] ELSE phaserObj[r]

\* C8: every run that finishes successfully, static or asynchronous, leaves
\* its entity with user_generated_obj=true, generating=false and the resolved
\* property set attached.
C8_FinalizedProperties ==
  \A r \in Runs :
    run[r].outcome \in {"static", "veoSuccess"} =>
      /\ Truthy(FinalEntity(r).prop, "user_generated_obj")
      /\ ~Truthy(FinalEntity(r).prop, "generating")
      /\ FinalEntity(r).prop = run[r].finalProperties

\* C9: every contact-continuing event in which an ignitable entity touches
\* the ice wall, in either order of the pair, strictly decreases the wall's
\* height, and no event increases it.
C9_MeltingDecreases ==
  [][/\ HasMeltingPair(iceEvent') => icewall'.size.y < icewall.size.y
     /\ icewall'.size.y <= icewall.size.y]_vars

C9_Witness ==
  /\ Len(iceEvent) = 1 /\ iceEvent[1][2] = "ice" /\ canSetFire(iceEvent[1][1])
  /\ icewall.exists /\ icewall.size.y < IceHeight0

\* C10: under sustained contact the wall's height stops at the minimum bound:
\* after any number of events, also events with several ignitable bodies, it
\* is never below the bound.
C10_HeightBounded == icewall.size.y >= MinIceHeight


\* a lightning game object and a rusted one, in this order
ConductingPairs ==
  {p \in Bodies \X Bodies :
     /\ p[1] # p[2]
     /\ Truthy(world.obj[p[1]].prop, "lightning")
     /\ Truthy(world.obj[p[2]].prop, "rusted")}

\* C11: for a lightning entity and a rusted entity in contact, the
\* contact-continuing handler leaves the rusted entity in the same state,
\* rusted cleared and the de-rusted texture set, whether the lightning entity
\* is reported as body A or as body B.
C11_ConductionOrderIndependent ==
  \A p \in ConductingPairs :
    LET ab == collisionActivePair(world, p[1], p[2]).obj[p[2]]
        ba == collisionActivePair(world, p[2], p[1]).obj[p[2]]
    IN /\ ab = ba
       /\ ~Truthy(ab.prop, "rusted")
       /\ ab.texture = "key"

\* a contact-continuing event was delivered with the lightning entity as
\* body B and the rusted entity, now de-rusted, as body A
C11_Witness ==
  /\ contact.last = "active" /\ contact.ticks = 1
  /\ world.obj[contact.a].name = "key"
  /\ ~Truthy(world.obj[contact.a].prop, "rusted")
  /\ world.obj[contact.a].texture = "key"
  /\ Truthy(world.obj[otherBody(contact.a)].prop, "lightning")

\* C12: a contact-continuing event leaves the properties and the texture of
\* every entity whose rusted is already cleared as they were.
C12_ConductionIdempotent ==
  [][\A b \in Bodies :
       (contact'.last = "active" /\ ~Truthy(world.obj[b].prop, "rusted")) =>
         /\ world'.obj[b].prop = world.obj[b].prop
         /\ world'.obj[b].texture = world.obj[b].texture]_vars

\* a second contact-continuing event of the same contact has been delivered
\* to a de-rusted entity
C12_Witness ==
  /\ contact.last = "active" /\ contact.ticks = MaxTicks
  /\ \E b \in Bodies :
       /\ world.obj[b].name \in {"key", "can"}
       /\ ~Truthy(world.obj[b].prop, "rusted")
       /\ world.obj[b].texture = "key"
       /\ Truthy(world.obj[otherBody(b)].prop, "lightning")

\* C13: once a contact-begin event between a lightning entity and a rusted
\* entity has been processed, rusted is cleared, also when the contact ends
\* before any contact-continuing event.
C13_ConductionAtContactBegin ==
  (contact.last \in {"start", "end"} /\ contact.ticks = 0) => ConductingPairs = {}

\* C18: after a contact-begin event has been processed, no body whose entity
\* has heavy=true is on the floating list.
C18_HeavyNeverFloats ==
  contact.last \in {"start", "sensorStart"} =>
    \A b \in Bodies : Truthy(world.obj[b].prop, "heavy") => b \notin world.floating

\* C19: for every entity, de-rusting through the 'electrify' command gives
\* the state the collision handler's de-rusting gives, and igniting through
\* the 'setfire' command gives the state the collision handler's ignition
\* gives.
C19_CommandMatchesCollision ==
  \A b \in Bodies :
    /\ commandElectrify(world.obj[b]) = collisionDerust(world.obj[b])
    /\ commandSetfire(world.obj[b]) = addFire(world.obj[b])


\* what the primary classification returns for a drawing recognised as fire
FireResponses ==
  {analyzeDrawingWithOllama(
     AnalyzeDrawingRoute(OllamaOutcome("analysis", "fire", w))) : w \in WordLists}

\* C14: a drawing classified as "fire" resolves to a property set with
\* burns=true, for every list of property words returned with it.
C14_FireBurns ==
  (extracted.done /\ rawData \in FireResponses) =>
    /\ Truthy(extracted.additional, "burns")
    /\ Truthy(extracted.final, "burns")

C14_Witness ==
  /\ extracted.done
  /\ rawData = FlatResponse("fire",
                 parsePropertiesFromString("fire", <<"light", "zzz">>))
  /\ Truthy(extracted.final, "burns") /\ Truthy(extracted.final, "floats")


\* C15: for one handle at most maxRetries status-check rounds are issued,
\* whatever the backend answers, each with at most one frame load, and once
\* the rounds are used up polling has stopped.
C15_AtMostMaxRetriesRounds ==
  \A r \in Runs :
    /\ run[r].statusChecks <= maxRetries
    /\ run[r].frameLoads <= run[r].statusChecks
    /\ run[r].pollEnd = "exhausted" =>
         (run[r].pc = "done" /\ run[r].statusChecks = maxRetries)

\* all rounds used, some of them answering ready with frames that failed to
\* load
C15_Witness ==
  \E r \in Runs :
    /\ run[r].pollEnd = "exhausted" /\ run[r].statusChecks = maxRetries
    /\ run[r].everReady /\ run[r].frameLoads > 0

C20_FinalizedAfterLoad ==
  \A r \in Runs :
    (<<run[r].generatedImageData, r>> \in b64Pending /\ phaserObj[r].state = "scene") =>
      /\ Truthy(phaserObj[r].prop, "generating")
      /\ ~Truthy(phaserObj[r].prop, "user_generated_obj")


\* C17: when the swap has run its transfer, every flagged effect and every
\* held emitter other than the one whose transfer threw is on the
\* replacement, and the destruction of the original is scheduled or done.
C17_TransferFailureIsolated ==
  \A r \in Runs :
    (placeholder[r].swap \in {"destroyDue", "done", "aborted"}
       /\ placeholder[r].state = "scene") =>
      LET t == placeholder[r].transfer IN
      /\ (t.had \ {t.bad}) \subseteq placeholder[r].effects
      /\ (t.held \ {t.bad}) \subseteq placeholder[r].emitters
      /\ placeholder[r].swap # "aborted"

C22_FailedLoadKeepsPolling ==
  [][\A r \in Runs :
       (run[r].pc = "loadFrames" /\ run[r].framesResult = "false"
          /\ run'[r] # run[r])
         => /\ run'[r].retryCount = run[r].retryCount + 1
            /\ IF run'[r].retryCount < maxRetries
               THEN /\ run'[r].pc = "pollWait"
                    /\ run'[r].fallbacks = run[r].fallbacks
                    /\ run'[r].outcome = "none"
               ELSE /\ run'[r].pc = "done"
                    /\ run'[r].pollEnd = "exhausted"
                    /\ run'[r].fallbacks = run[r].fallbacks + 1]_vars

\* two ready rounds whose frames failed to load were counted and the loop is
\* about to poll a third time, no fallback so far
C22_Witness ==
  \E r \in Runs :
    /\ run[r].pc = "pollStatus" /\ run[r].frameLoads = 2
    /\ run[r].retryCount = 2 /\ run[r].statusChecks = 2
    /\ run[r].fallbacks = 0 /\ phaserObj[r].state = "scene"

C24_EffectsMovedNotRecreated ==
  \A r \in Runs :
    placeholder[r].swap = "done"
      => \A e \in placeholder[r].transfer.had :
           /\ e \in placeholder[r].emitters
           /\ e \notin phaserObj[r].emitters
           /\ e \notin placeholder[r].effects

\* C25: the force field of magnetism is created once, at the moment an
\* entity's magnetic property changes from false to true: every step that
\* creates a force field for an entity finds the entity not magnetic and
\* leaves it magnetic (so a magnetize command on a magnetic entity and a
\* collision event create none).
C25_ForceFieldOncePerChange ==
  [][\A b \in Bodies :
       world'.obj[b].fields # world.obj[b].fields
         => /\ ~Truthy(world.obj[b].prop, "magnetic")
            /\ Truthy(world'.obj[b].prop, "magnetic")
            /\ world'.obj[b].fields = world.obj[b].fields + 1]_vars

\* C26: the ignition rule does not depend on the order in which the physics
\* substrate reports the two bodies: one contact-continuing event makes the
\* same addFire calls on each entity for (A,B) as for (B,A).
C26_IgnitionOrderIndependent ==
  \A a, b \in Bodies :
    a # b => addFireCalls(world, a, b) = addFireCalls(world, b, a)

\* every entity of the scene, original or replacement
SceneObjects == {phaserObj[r] : r \in Runs} \cup {placeholder[r] : r \in Runs}

\* C27: safeSceneTransition handles an object in the order stop its effects,
\* remove it from the render and update lists, destroy it; an object that is
\* already destroyed is skipped by every pass, so a second
\* safeSceneTransition changes nothing on the objects.
C27_TeardownOrderedAndIdempotent ==
  \A o \in SceneObjects :
    LET o1 == sceneTransitionObject(o) IN
    /\ o.state = "scene"
         => /\ o1.state = "destroyed"
            /\ o1.teardown =
                 << "stop", "displayList", "updateList", "children", "destroy" >>
    /\ o.state # "scene" => o1 = o
    /\ sceneTransitionObject(o1) = o1
    /\ o.teardown # << >>
         => (o.state = "destroyed" /\ o.teardown = sceneTransitionPasses)

\* a scene teardown has destroyed the entity of a run that is still polling
C27_Witness ==
  \E r \in Runs :
    /\ tornDown /\ run[r].pc = "pollWait"
    /\ phaserObj[r].state = "destroyed"
    /\ phaserObj[r].teardown = sceneTransitionPasses

\* C28: when a run fails at any stage, polling included, the loading
\* particles, the veo particles and the blink tween are stopped and
\* destroyed and the transient entity is removed from the scene.
C28_FailureRemovesEverything ==
  \A r \in Runs :
    run[r].outcome \in {"failed", "veoFallback"}
      => /\ loadingParticles[r] # "active"
         /\ veoParticles[r] # "active"
         /\ phaserObj[r].blinkTween # "active"
         /\ phaserObj[r].state # "scene"

\* C29: on every path through a run the loading-particle emitter is stopped
\* and destroyed exactly once, also when the run fails after the emitter
\* was disposed of, and the error handler's remaining cleanup has run: the
\* entity of a failed run is destroyed.
C29_LoadingParticlesDisposedOnce ==
  \A r \in Runs :
    /\ loadingParticles[r] # "destroyedTwice"
    /\ run[r].pc = "done" => loadingParticles[r] = "destroyed"
    /\ run[r].outcome = "failed" => phaserObj[r].state = "destroyed"

\* C30: the placeholder entity (solid=false, generating=true) and its
\* loading particles exist when the first classification request is in
\* flight, and until the run is finalized or fails the entity stays
\* non-solid with generating=true.
C30_PlaceholderUntilFinalized ==
  \A r \in Runs :
    /\ run[r].pc = "classify1"
         => (loadingParticles[r] = "active" /\ phaserObj[r].state # "none")
    /\ run[r].pc \notin {"idle", "done"}
         => /\ phaserObj[r].prop["generating"] = TRUE
            /\ phaserObj[r].prop["solid"] = FALSE

\* C31: for a classification response in the attribute-list shape a trait is
\* true in the resolved property set exactly when it is a key of the zero
\* baseline and its name occurs in the list; every other trait is false, so
\* no true-valued default survives (apart from user_generated_obj, set at
\* finalization).
C31_ListShapeExact ==
  (extracted.done /\ rawData.shape = "list")
    => /\ DOMAIN extracted.additional = DOMAIN getZeroWorldObjProp
       /\ \A k \in DOMAIN extracted.additional :
            extracted.additional[k] = (k \in rawData.attributes)
       /\ \A k \in DOMAIN extracted.final :
            extracted.final[k] =
              (k = "user_generated_obj"
                 \/ (k \in DOMAIN getZeroWorldObjProp /\ k \in rawData.attributes))

\* an attribute list naming a trait of the baseline and a foreign name was
\* resolved: the named trait is true, the defaults solid and falls are not
C31_Witness ==
  /\ extracted.done /\ rawData.shape = "list"
  /\ rawData.attributes = {"burns", "sticky"}
  /\ extracted.final["burns"] /\ ~extracted.final["solid"]
  /\ ~extracted.final["falls"] /\ extracted.final["user_generated_obj"]

\* C32: each finished drawing is consumed exactly once: at most one submit
\* timer is pending at any time, one drawing (one temporary canvas) never
\* starts two pipeline runs, and a dismissed canvas starts none.
C32_OneSubmitPerDrawing ==
  /\ Cardinality(canvas.pending) <= 1
  /\ canvas.runs <= 1
  /\ ~canvas.ranDismissed

\* C33: for every generator the client is configured with and every server
\* backend configuration, a successful /generateImage response leads to a
\* finalized entity and never to a failed run (scene teardown aside).
C33_SuccessfulGenerationFinalizes ==
  \A r \in Runs :
    (/\ ~tornDown /\ run[r].pc = "done"
     /\ run[r].generation \in {"b64", "hashJson"}
     /\ \E localEnabled \in BOOLEAN, n \in 1 .. MaxImages :
          generateImageRoute(run[r].generatorType, localEnabled, n).kind
            = run[r].generation)
      => run[r].outcome # "failed"

\* the outcomes in which a run is over: the entity finalized (static image,
\* static fallback, animation) or removed (rejected, failed)
TerminalOutcomes == {"static", "veoFallback", "veoSuccess", "removed", "failed"}

\* C34: provided each backend call and each asset load eventually completes
\* or fails, every started run eventually reaches a terminal outcome, and it
\* reaches exactly one: an outcome once set never changes, and a run has an
\* outcome exactly when it is over.
C34_RunTerminates ==
  /\ \A r \in Runs :
       (run[r].pc # "idle")
         ~> (run[r].pc = "done" /\ run[r].outcome \in TerminalOutcomes)
  /\ [][\A r \in Runs :
          /\ run[r].outcome # "none" => run'[r].outcome = run[r].outcome
          /\ (run'[r].pc = "done") = (run'[r].outcome # "none")]_vars

\* a run that polled through the whole attempt budget is over, with the
\* static fallback
C34_Witness ==
  \E r \in Runs :
    /\ run[r].pc = "done" /\ run[r].outcome = "veoFallback"
    /\ run[r].statusChecks = maxRetries /\ run[r].frameLoads > 0

\* C35: a command applies its verb's mutation to each targeted entity exactly
\* once, also to an entity that matches the selector by its name and by a true
\* property of that name: a magnetize command gives each entity it selects
\* exactly one more force field, and the others none.
C35_VerbOncePerTarget ==
  [][contact'.last = "command" =>
       \E t \in ForceTargets :
         \A b \in Bodies :
           world'.obj[b].fields - world.obj[b].fields
             = IF b \in commandTargets(world, t) THEN 1 ELSE 0]_vars

\* the number of variations stored in a pool
stored(c, k) == Cardinality({i \in Slots : c.images[k][i] # Absent})

\* the pool that a call's arguments address
poolOf(call) ==
  << "local", toLowerCase(call.objectType), toLowerCase(call.visualStyle) >>

\* C36: under cacheImage calls the number of stored variations of a pool
\* never exceeds poolSize and never decreases; a successful call on a pool
\* that is not full adds exactly one variation, in the lowest free slot, and
\* a successful call on a full pool changes at most one existing slot.
C36_PoolGrowsToPoolSize ==
  [][\A k \in PoolKeys :
       LET free == {i \in Slots : cache.images[k][i] = Absent}
           changed == {i \in Slots : cache'.images[k][i] # cache.images[k][i]}
       IN /\ stored(cache', k) <= poolSize
          /\ stored(cache', k) >= stored(cache, k)
          /\ (cache'.last.op = "cacheImage" /\ cache'.last.success
                /\ k = poolOf(cache'.last))
               => IF free # {}
                  THEN /\ stored(cache', k) = stored(cache, k) + 1
                       /\ changed = {i \in free : \A j \in free : i <= j}
                  ELSE /\ stored(cache', k) = poolSize
                       /\ Cardinality(changed) <= 1
          /\ ~(cache'.last.op = "cacheImage" /\ cache'.last.success)
               => changed = {}]_vars

\* a successful cacheImage on a pool that is full
C36_Witness ==
  /\ cache.last.op = "cacheImage" /\ cache.last.success
  /\ stored(cache, poolOf(cache.last)) = poolSize
  /\ \E i, j \in Slots :
       cache.images[poolOf(cache.last)][i] # cache.images[poolOf(cache.last)][j]

C38_FramesRoundTrip ==
  (cache.last.op = "cacheFrames" /\ cache.last.success) =>
    LET res == cachedFramesResult(cache, cache.last.objectType,
                                  cache.last.visualStyle)
    IN /\ res.success
       /\ Len(res.data) = Len(cache.last.frames)
       /\ \A i \in 1 .. Len(res.data) :
            fromBase64(res.data[i]) = fromBase64(cache.last.frames[i])

\* C39: updateIceMelting keeps the bottom edge of the ice fixed while it
\* melts: the calls of one event lower the height by 1 each and move the
\* centre down by 0.5 each, so pos.y + size.y / 2 (in half units:
\* pos.y2 + size.y), pos.x and size.x stay what they were.
C39_BottomEdgeFixed ==
  [][/\ icewall'.pos.y2 + icewall'.size.y = icewall.pos.y2 + icewall.size.y
     /\ \E n \in 0 .. (2 * MaxPairs) :
          /\ icewall'.size.y = icewall.size.y - n
          /\ icewall'.pos.y2 = icewall.pos.y2 + n
     /\ icewall'.pos.x = icewall.pos.x
     /\ icewall'.size.x = icewall.size.x]_vars

\* the wall has melted more than once and still stands
C39_Witness ==
  /\ icewall.exists /\ icewall.pos.y2 >= 2 /\ icewall.size.y >= 1
  /\ iceEvent # << >>

====
